---- MODULE Spec2Model ----
(***************************************************************************)
(* Model of the vector-config-reloader of crusoe-watch-agent               *)
(* (k8s/vector-config-reloader/app).  The reloader keeps the persisted     *)
(* vector graph {sources, transforms, sinks} in step with the exporter     *)
(* pods of its node and with the custom-metrics rule object (a ConfigMap). *)
(*                                                                         *)
(* Node ids, pod names and deployment names are sequences of one-character *)
(* strings, so that sanitize_name, the role suffixes, rsplit and sorted()  *)
(* are computed character by character as Python computes them.           *)
(***************************************************************************)
EXTENDS Integers, Sequences, FiniteSets, TLC

\* ------------------------------------------------------------------------
\* Strings
\* ------------------------------------------------------------------------

\* The characters of the model in code-point order (Python compares str
\* values code point by code point).
CodeOrder ==
    <<" ","-",".","/","0","1","2","3","4","5","6","7","8","9",":","A","B","C","D","E","F","G","H","I","J","K","L","M","N","O","P","Q","R","S","T","U","V","W","X","Y","Z","_","a","b","c","d","e","f","g","h","i","j","k","l","m","n","o","p","q","r","s","t","u","v","w","x","y","z">>

Ord(c) == CHOOSE i \in 1..Len(CodeOrder) : CodeOrder[i] = c

\* The character class [a-zA-Z0-9_] of sanitize_name.
IdentChars ==
    {"0","1","2","3","4","5","6","7","8","9","A","B","C","D","E","F","G","H","I","J","K","L","M","N","O","P","Q","R","S","T","U","V","W","X","Y","Z","_","a","b","c","d","e","f","g","h","i","j","k","l","m","n","o","p","q","r","s","t","u","v","w","x","y","z"}

Range(s) == {s[i] : i \in 1..Len(s)}

\* a < b for Python str values
RECURSIVE StrLess(_, _)
StrLess(a, b) ==
    IF a = <<>> THEN b # <<>>
    ELSE IF b = <<>> THEN FALSE
    ELSE IF a[1] = b[1] THEN StrLess(Tail(a), Tail(b))
    ELSE Ord(a[1]) < Ord(b[1])

\* sorted(S) for a set S of str values
RECURSIVE sorted(_)
sorted(S) ==
    IF S = {} THEN <<>>
    ELSE LET m == CHOOSE x \in S : \A y \in S \ {x} : StrLess(x, y)
         IN  <<m>> \o sorted(S \ {m})

sanitize_name_hyphen_only(name) ==
    [i \in 1..Len(name) |-> IF name[i] = "-" THEN "_" ELSE name[i]]

\* re.sub(r'[^a-zA-Z0-9_]', '_', name)
sanitize_name(name) ==
    [i \in 1..Len(name) |-> IF name[i] \in IdentChars THEN name[i] ELSE "_"]

DCGM_EXPORTER_SOURCE_NAME ==
    <<"d","c","g","m","_","e","x","p","o","r","t","e","r","_","s","c","r","a","p","e">>
DMESG_LOGS_SOURCE_NAME ==
    <<"d","m","e","s","g","_","l","o","g","s">>
CRUSOE_INGEST_SINK_NAME ==
    <<"c","r","u","s","o","e","_","i","n","g","e","s","t">>
ENRICH_LOGS_TRANSFORM_NAME ==
    <<"e","n","r","i","c","h","_","l","o","g","s">>
JOURNALD_LOGS_SOURCE_NAME ==
    <<"j","o","u","r","n","a","l","d","_","l","o","g","s">>
KUBE_STATE_METRICS_SOURCE_NAME ==
    <<"k","u","b","e","_","s","t","a","t","e","_","m","e","t","r","i","c","s","_","s","c","r","a","p","e">>
KUBE_STATE_METRICS_TRANSFORM_NAME ==
    <<"e","n","r","i","c","h","_","k","u","b","e","_","s","t","a","t","e","_","m","e","t","r","i","c","s">>
KUBE_STATE_METRICS_SINK_NAME ==
    <<"k","u","b","e","_","s","t","a","t","e","_","m","e","t","r","i","c","s","_","s","i","n","k">>
NODE_METRICS_VECTOR_TRANSFORM_NAME ==
    <<"e","n","r","i","c","h","_","n","o","d","e","_","m","e","t","r","i","c","s">>
CUSTOM_METRICS_VECTOR_TRANSFORM_NAME ==
    <<"e","n","r","i","c","h","_","c","u","s","t","o","m","_","m","e","t","r","i","c","s">>
AMD_EXPORTER_SOURCE_NAME ==
    <<"a","m","d","_","e","x","p","o","r","t","e","r","_","s","c","r","a","p","e">>
AMD_FILTER_TRANSFORM_NAME ==
    <<"a","m","d","_","a","l","l","o","w","e","d","_","f","i","l","t","e","r">>
HOST_METRICS_SOURCE_NAME ==
    <<"h","o","s","t","_","m","e","t","r","i","c","s">>
NODE_METRICS_SINK_NAME ==
    <<"c","m","s","_","g","a","t","e","w","a","y","_","n","o","d","e","_","m","e","t","r","i","c","s">>
CUSTOM_METRICS_SINK_NAME ==
    <<"c","m","s","_","g","a","t","e","w","a","y","_","c","u","s","t","o","m","_","m","e","t","r","i","c","s">>
SCRAPE_SUFFIX ==
    <<"_","s","c","r","a","p","e">>
TRANSFORM_SUFFIX ==
    <<"_","t","r","a","n","s","f","o","r","m">>
SINK_SUFFIX ==
    <<"_","s","i","n","k">>
NAME_W_A_B ==
    <<"w","-","a","-","b">>
NAME_W_DOT_A_B ==
    <<"w",".","a","-","b">>
NAME_SVC_B_456 ==
    <<"s","v","c","-","b","-","4","5","6">>
NAME_BAD_A_B ==
    <<"b","a","d","-","a","-","b">>
NAME_DCGM_EXPORTER ==
    <<"d","c","g","m","-","e","x","p","o","r","t","e","r">>
NAME_KUBE_STATE_METRICS ==
    <<"k","u","b","e","-","s","t","a","t","e","-","m","e","t","r","i","c","s">>
NAME_DCGM_POD ==
    <<"d","c","g","m","-","1">>
NAME_DCGM_POD_2 ==
    <<"d","c","g","m","-","2">>
NAME_KSM_POD ==
    <<"k","s","m","-","1">>
NAME_AMD_POD ==
    <<"a","m","d","-","1">>
NAME_OTHER_POD ==
    <<"o","t","h","e","r">>
DEPLOYMENT_W ==
    <<"w">>

\* ------------------------------------------------------------------------
\* Program constants
\* ------------------------------------------------------------------------

CUSTOM_METRICS_DEFAULT_SCRAPE_INTERVAL == 30
SCRAPE_INTERVAL_MIN_THRESHOLD == 5
DEFAULT_AMD_SCRAPE_INTERVAL == 60
KSM_DEFAULT_SCRAPE_INTERVAL == 60
KSM_DEFAULT_PORT == 8080
AMD_DEFAULT_PORT == 5000
DCGM_CONFIG_PORT == 9400
DCGM_CONFIG_SCRAPE_INTERVAL == 30
CUSTOM_CONFIG_PORT == 9100

CUSTOM_METRICS_CONFIG_MAP_NAME == "crusoe-custom-metrics-config"
\* another ConfigMap of the namespace crusoe-monitoring
OTHER_CONFIG_MAP_NAME == "kube-root-ca.crt"
DCGM_EXPORTER_APP_LABEL == "nvidia-dcgm-exporter"
KUBE_STATE_METRICS_APP_LABEL == "kube-state-metrics"
DEFAULT_AMD_APP_LABEL == "metrics-exporter"
AMD_LABEL_KEY == "app.kubernetes.io/name"
DEFAULT_AMD_NAMESPACE == "kube-amd-gpu"
CUSTOM_METRICS_SCRAPE_ANNOTATION == "crusoe.ai/scrape"

\* ------------------------------------------------------------------------
\* State
\* ------------------------------------------------------------------------

VARIABLES
    collector,      \* the log collector: its node and its poll cycle
    reloader_cfg,   \* the enabled flags read from RELOADER_CONFIG_PATH
    ruleObject,     \* the ConfigMap crusoe-custom-metrics-config in the cluster
    pods,           \* cluster: the phase of each pod of the node
    podStream,      \* pod watch: events delivered and not yet taken
    cmStream,       \* ConfigMap watch: events delivered and not yet taken
    podEvents,      \* number of pod events delivered so far
    cmEvents,       \* number of ConfigMap events delivered so far
    file,           \* the persisted graph at VECTOR_CONFIG_PATH
    pcMain,         \* execute(): "bootstrap", then "watching"
    running,        \* self.running
    podPc,          \* run_pod_event_handler: "wait", "loaded" or "done"
    podEvent,       \* handle_pod_event: the event being handled
    podCfg,         \* handle_pod_event: current_vector_cfg
    cmPc,           \* run_config_map_event_handler: "wait", "loaded", "listed" or "done"
    cmObject,       \* metadata.name of the ConfigMap whose event that loop is handling
    cmCfg,          \* refresh_custom_metrics_config: current_cfg
    cmEps,          \* refresh_custom_metrics_config: custom_metrics_eps
    cache,          \* self.custom_metrics_config_map_cache: <<>> while it has
                    \* no entry, <<data>> once an event has stored one
    graph,          \* graph editor: the in-memory vector_cfg being edited
    call,           \* graph editor: the last set_* / remove_* call, its argument
                    \* and the rule object it read
    faults          \* the loops ("pod", "cm") in which a handler has raised

\* ------------------------------------------------------------------------
\* Dicts (Python dict as a function; inputs lists as sequences)
\* ------------------------------------------------------------------------

\* d[k] = v
Put(d, k, v) == [x \in (DOMAIN d) \cup {k} |-> IF x = k THEN v ELSE d[x]]

\* d.pop(k, None)
Pop(d, k) == [x \in (DOMAIN d) \ {k} |-> d[x]]

EmptyDict == [x \in {} |-> <<>>]

\* A str that yaml dumps in literal block style (LiteralStr) or, once it has
\* been through a dump and a load, a plain str with the same text.
LiteralStr(text) == [text |-> text, literal |-> TRUE]

PlainStr(text) == [text |-> text, literal |-> FALSE]

\* the largest power of two that is at most n (n >= 1)
RECURSIVE binade(_)
binade(n) == IF n < 2 THEN 1 ELSE 2 * binade(n \div 2)

\* int(interval * SCRAPE_TIMEOUT_PERCENTAGE) for an int interval >= 0.  The
\* double 0.7 is 0.7 - 0.4 * 2^-53 and the product is rounded to the nearest
\* double before int() truncates it.  When 7 * interval / 10 is not whole the
\* rounded product keeps its integer part.  When it is a whole number n, the
\* exact product is n - 0.4 * interval * 2^-53, which rounds to the double
\* below n exactly when 4 * n > 7 * binade(n), and int() then yields n - 1.
scrape_timeout(interval) ==
    LET n == (interval * 7) \div 10
    IN  IF interval % 10 = 0 /\ n > 0 /\ 4 * n > 7 * binade(n) THEN n - 1 ELSE n

\* ------------------------------------------------------------------------
\* Rule store and expression compiler
\* ------------------------------------------------------------------------

\* {} as a deployment policy: every .get() falls back to its default
EmptyPolicy ==
    [allowlist |-> <<>>, droplist |-> <<>>, dropLabels |-> <<>>,
     addLabels |-> <<>>, scrape_interval_secs |-> <<>>]

\* parts = pod_name.rsplit("-", 2); parts[0] if len(parts) == 3 else ""
deployment_name_of(pod_name) ==
    LET hy == {i \in 1..Len(pod_name) : pod_name[i] = "-"}
    IN  IF Cardinality(hy) < 2 THEN <<>>
        ELSE LET last == CHOOSE i \in hy : \A j \in hy : j <= i
                 prev == CHOOSE i \in hy \ {last} : \A j \in hy \ {last} : j <= i
             IN  SubSeq(pod_name, 1, prev - 1)

\* a lookup that falls back to some entry of the rule object when the
\* deployment has none
get_deployment_metrics_config_any_entry(deployment_name) ==
    IF deployment_name = <<>> THEN EmptyPolicy
    ELSE IF ~ruleObject.readable THEN EmptyPolicy
    ELSE IF deployment_name \in DOMAIN ruleObject.rules
         THEN ruleObject.rules[deployment_name]
         ELSE IF DOMAIN ruleObject.rules = {} THEN EmptyPolicy
         ELSE ruleObject.rules[CHOOSE d \in DOMAIN ruleObject.rules : TRUE]

\* config_map.data[CUSTOM_METRICS_CONFIG_MAP_KEY] is modelled parsed: rules
\* is what YamlUtils.load_yaml_string returns for it, the empty dict when the
\* key is missing or empty
get_deployment_metrics_config(deployment_name) ==
    IF deployment_name = <<>> THEN EmptyPolicy
    ELSE IF ~ruleObject.readable THEN EmptyPolicy
    ELSE IF deployment_name \in DOMAIN ruleObject.rules
         THEN ruleObject.rules[deployment_name]
         ELSE EmptyPolicy

\* the compiler with the two guards tested independently (if / if)
build_deployment_transform_source_both_guards(deployment_config, endpoint_config) ==
    LET allow ==
            IF deployment_config.allowlist # <<>>
            THEN << [stmt |-> "allowed_metrics", names |-> deployment_config.allowlist],
                    [stmt |-> "abort_unless_allowed"] >>
            ELSE <<>>
        drop ==
            IF deployment_config.droplist # <<>>
            THEN << [stmt |-> "dropped_metrics", names |-> deployment_config.droplist],
                    [stmt |-> "abort_if_dropped"] >>
            ELSE <<>>
    IN  allow \o drop \o
        << [stmt |-> "set", label |-> "pod_ip", value |-> endpoint_config.pod_ip],
           [stmt |-> "set", label |-> "pod_name", value |-> endpoint_config.pod_name] >>

\* the compiler with the label assignments made before the deletions
build_deployment_transform_source_adds_first(deployment_config, endpoint_config) ==
    LET guard ==
            IF deployment_config.allowlist # <<>>
            THEN << [stmt |-> "allowed_metrics", names |-> deployment_config.allowlist],
                    [stmt |-> "abort_unless_allowed"] >>
            ELSE IF deployment_config.droplist # <<>>
            THEN << [stmt |-> "dropped_metrics", names |-> deployment_config.droplist],
                    [stmt |-> "abort_if_dropped"] >>
            ELSE <<>>
        dels == [i \in 1..Len(deployment_config.dropLabels) |->
                    [stmt |-> "del", label |-> deployment_config.dropLabels[i]]]
        adds == [i \in 1..Len(deployment_config.addLabels) |->
                    [stmt |-> "set", label |-> deployment_config.addLabels[i][1],
                     value |-> deployment_config.addLabels[i][2]]]
        fixed == << [stmt |-> "tag", label |-> "nodepool"],
                    [stmt |-> "tag", label |-> "cluster_id"],
                    [stmt |-> "tag", label |-> "vm_id"],
                    [stmt |-> "tag", label |-> "vm_instance_type"],
                    [stmt |-> "tag", label |-> "pod_id"],
                    [stmt |-> "tag", label |-> "crusoe_resource"],
                    [stmt |-> "tag", label |-> "metrics_source"],
                    [stmt |-> "set", label |-> "pod_ip", value |-> endpoint_config.pod_ip],
                    [stmt |-> "set", label |-> "pod_name", value |-> endpoint_config.pod_name] >>
    IN  guard \o adds \o dels \o fixed

\* the lines of the VRL body, in order
build_deployment_transform_source(deployment_config, endpoint_config) ==
    LET guard ==
            IF deployment_config.allowlist # <<>>
            THEN << [stmt |-> "allowed_metrics", names |-> deployment_config.allowlist],
                    [stmt |-> "abort_unless_allowed"] >>
            ELSE IF deployment_config.droplist # <<>>
            THEN << [stmt |-> "dropped_metrics", names |-> deployment_config.droplist],
                    [stmt |-> "abort_if_dropped"] >>
            ELSE <<>>
        dels == [i \in 1..Len(deployment_config.dropLabels) |->
                    [stmt |-> "del", label |-> deployment_config.dropLabels[i]]]
        adds == [i \in 1..Len(deployment_config.addLabels) |->
                    [stmt |-> "set", label |-> deployment_config.addLabels[i][1],
                     value |-> deployment_config.addLabels[i][2]]]
        fixed == << [stmt |-> "tag", label |-> "nodepool"],
                    [stmt |-> "tag", label |-> "cluster_id"],
                    [stmt |-> "tag", label |-> "vm_id"],
                    [stmt |-> "tag", label |-> "vm_instance_type"],
                    [stmt |-> "tag", label |-> "pod_id"],
                    [stmt |-> "tag", label |-> "crusoe_resource"],
                    [stmt |-> "tag", label |-> "metrics_source"],
                    [stmt |-> "set", label |-> "pod_ip", value |-> endpoint_config.pod_ip],
                    [stmt |-> "set", label |-> "pod_name", value |-> endpoint_config.pod_name] >>
    IN  guard \o dels \o adds \o fixed

\* ------------------------------------------------------------------------
\* Endpoint descriptors
\* ------------------------------------------------------------------------

\* f"http://{pod_ip}:{port}{path}"
Url(pod_ip, port, path) == [ip |-> pod_ip, port |-> port, path |-> path]

get_dcgm_exporter_scrape_endpoint(pod_ip) == Url(pod_ip, DCGM_CONFIG_PORT, "/metrics")

get_kube_state_metrics_scrape_endpoint(pod_ip) == Url(pod_ip, KSM_DEFAULT_PORT, "/metrics")

build_endpoint(pod_ip) == Url(pod_ip, AMD_DEFAULT_PORT, "/metrics")

\* ------------------------------------------------------------------------
\* Graph editor
\* ------------------------------------------------------------------------

custom_metrics_sink_config ==
    [type |-> "prometheus_remote_write",
     inputs |-> <<CUSTOM_METRICS_VECTOR_TRANSFORM_NAME>>,
     endpoint |-> "custom",
     tenant_id |-> "cri:custom_metrics"]

kube_state_metrics_sink_config ==
    [type |-> "prometheus_remote_write",
     inputs |-> <<KUBE_STATE_METRICS_TRANSFORM_NAME>>,
     endpoint |-> "ingest",
     tenant_id |-> "cri:cmk"]

prometheus_scrape(endpoint, interval) ==
    [type |-> "prometheus_scrape",
     endpoints |-> <<endpoint>>,
     scrape_interval_secs |-> interval,
     scrape_timeout_secs |-> scrape_timeout(interval)]

\* transforms[name]["inputs"].append(id) unless id is already in it
append_input_always(vector_cfg, name, id) ==
    [vector_cfg EXCEPT !.transforms[name].inputs = Append(@, id)]

append_input(vector_cfg, name, id) ==
    LET inputs == vector_cfg.transforms[name].inputs
    IN  IF id \in Range(inputs) THEN vector_cfg
        ELSE [vector_cfg EXCEPT !.transforms[name].inputs = Append(inputs, id)]

\* transforms[name]["inputs"] = sorted(set(inputs) - {id})
discard_input(vector_cfg, name, id) ==
    [vector_cfg EXCEPT !.transforms[name].inputs =
        sorted(Range(vector_cfg.transforms[name].inputs) \ {id})]

\* dcgm_exporter_scrape_endpoint is <<>> for None, <<url>> otherwise
set_dcgm_exporter_scrape_config(vector_cfg, dcgm_exporter_scrape_endpoint) ==
    IF dcgm_exporter_scrape_endpoint = <<>> THEN vector_cfg
    ELSE IF ~reloader_cfg.dcgm_metrics_enabled THEN vector_cfg
    ELSE append_input(
            [vector_cfg EXCEPT !.sources =
                Put(@, DCGM_EXPORTER_SOURCE_NAME,
                    prometheus_scrape(dcgm_exporter_scrape_endpoint[1],
                                      DCGM_CONFIG_SCRAPE_INTERVAL))],
            NODE_METRICS_VECTOR_TRANSFORM_NAME, DCGM_EXPORTER_SOURCE_NAME)

\* a removal that takes the node-level transform away with the source
remove_dcgm_with_node_transform(vector_cfg) ==
    [vector_cfg EXCEPT
        !.sources = Pop(@, DCGM_EXPORTER_SOURCE_NAME),
        !.transforms = Pop(@, NODE_METRICS_VECTOR_TRANSFORM_NAME)]

remove_dcgm_exporter_scrape_config(vector_cfg) ==
    discard_input(
        [vector_cfg EXCEPT !.sources = Pop(@, DCGM_EXPORTER_SOURCE_NAME)],
        NODE_METRICS_VECTOR_TRANSFORM_NAME, DCGM_EXPORTER_SOURCE_NAME)

set_kube_state_metrics_scrape_config(vector_cfg, ksm_scrape_endpoint) ==
    IF ksm_scrape_endpoint = <<>> THEN vector_cfg
    ELSE IF ~reloader_cfg.ksm_enabled THEN vector_cfg
    ELSE [vector_cfg EXCEPT
            !.sources = Put(@, KUBE_STATE_METRICS_SOURCE_NAME,
                            prometheus_scrape(ksm_scrape_endpoint[1],
                                              KSM_DEFAULT_SCRAPE_INTERVAL)),
            !.transforms = Put(@, KUBE_STATE_METRICS_TRANSFORM_NAME,
                            [type |-> "remap",
                             inputs |-> <<KUBE_STATE_METRICS_SOURCE_NAME>>,
                             source |-> LiteralStr("KUBE_STATE_METRICS_TRANSFORM_SOURCE")]),
            !.sinks = Put(@, KUBE_STATE_METRICS_SINK_NAME,
                            kube_state_metrics_sink_config)]

remove_kube_state_metrics_scrape_config(vector_cfg) ==
    [vector_cfg EXCEPT
        !.sources = Pop(@, KUBE_STATE_METRICS_SOURCE_NAME),
        !.transforms = Pop(@, KUBE_STATE_METRICS_TRANSFORM_NAME),
        !.sinks = Pop(@, KUBE_STATE_METRICS_SINK_NAME)]

\* AmdExporterManager.set_scrape; endpoint is <<>> for a falsy endpoint
set_scrape(vector_cfg, endpoint, transform_name) ==
    IF endpoint = <<>> THEN vector_cfg
    ELSE append_input(
            [vector_cfg EXCEPT
                !.sources = Put(@, AMD_EXPORTER_SOURCE_NAME,
                                prometheus_scrape(endpoint[1],
                                                  DEFAULT_AMD_SCRAPE_INTERVAL)),
                !.transforms = Put(@, AMD_FILTER_TRANSFORM_NAME,
                                [type |-> "filter",
                                 inputs |-> <<AMD_EXPORTER_SOURCE_NAME>>,
                                 source |-> LiteralStr("metrics_allowlist")])],
            transform_name, AMD_FILTER_TRANSFORM_NAME)

\* AmdExporterManager.remove_scrape
remove_scrape(vector_cfg, transform_name) ==
    LET popped == [vector_cfg EXCEPT !.sources = Pop(@, AMD_EXPORTER_SOURCE_NAME)]
        edited == IF transform_name \in DOMAIN popped.transforms
                  THEN discard_input(popped, transform_name, AMD_FILTER_TRANSFORM_NAME)
                  ELSE popped
    IN  [edited EXCEPT !.transforms = Pop(@, AMD_FILTER_TRANSFORM_NAME)]

\* one iteration of the loop of set_custom_metrics_scrape_config
set_custom_metrics_endpoint(vector_cfg, endpoint) ==
    LET pod_name_sanitized == sanitize_name(endpoint.pod_name)
        source_name == pod_name_sanitized \o SCRAPE_SUFFIX
        transform_name == pod_name_sanitized \o TRANSFORM_SUFFIX
        sink_name == pod_name_sanitized \o SINK_SUFFIX
        deployment_config == get_deployment_metrics_config(endpoint.deployment_name)
        configured == IF deployment_config.scrape_interval_secs = <<>>
                      THEN CUSTOM_METRICS_DEFAULT_SCRAPE_INTERVAL
                      ELSE deployment_config.scrape_interval_secs[1]
        scrape_interval_secs == IF configured > SCRAPE_INTERVAL_MIN_THRESHOLD
                                THEN configured
                                ELSE SCRAPE_INTERVAL_MIN_THRESHOLD
    IN  [vector_cfg EXCEPT
            !.sources = Put(@, source_name,
                            prometheus_scrape(endpoint.url, scrape_interval_secs)),
            !.transforms = Put(@, transform_name,
                            [type |-> "remap",
                             inputs |-> <<source_name>>,
                             drop_on_abort |-> TRUE,
                             source |-> LiteralStr(
                                build_deployment_transform_source(deployment_config, endpoint))]),
            !.sinks = Put(@, sink_name,
                            [custom_metrics_sink_config EXCEPT !.inputs = <<transform_name>>])]

RECURSIVE set_custom_metrics_endpoints(_, _)
set_custom_metrics_endpoints(vector_cfg, custom_metrics_eps) ==
    IF custom_metrics_eps = <<>> THEN vector_cfg
    ELSE set_custom_metrics_endpoints(
            set_custom_metrics_endpoint(vector_cfg, Head(custom_metrics_eps)),
            Tail(custom_metrics_eps))

\* the pods for which set_custom_metrics_scrape_config logs the warning
\* "scrape interval set to ... (less than 5 seconds)": the test is made on
\* scrape_interval_secs after max(..., SCRAPE_INTERVAL_MIN_THRESHOLD)
clamp_warnings(custom_metrics_eps) ==
    IF custom_metrics_eps = <<>> \/ ~reloader_cfg.custom_metrics_enabled THEN {}
    ELSE {custom_metrics_eps[i].pod_name : i \in
            {j \in 1..Len(custom_metrics_eps) :
                LET deployment_config ==
                        get_deployment_metrics_config(custom_metrics_eps[j].deployment_name)
                    configured == IF deployment_config.scrape_interval_secs = <<>>
                                  THEN CUSTOM_METRICS_DEFAULT_SCRAPE_INTERVAL
                                  ELSE deployment_config.scrape_interval_secs[1]
                    scrape_interval_secs == IF configured > SCRAPE_INTERVAL_MIN_THRESHOLD
                                            THEN configured
                                            ELSE SCRAPE_INTERVAL_MIN_THRESHOLD
                IN  scrape_interval_secs < SCRAPE_INTERVAL_MIN_THRESHOLD}}

set_custom_metrics_scrape_config(vector_cfg, custom_metrics_eps) ==
    IF custom_metrics_eps = <<>> THEN vector_cfg
    ELSE IF ~reloader_cfg.custom_metrics_enabled THEN vector_cfg
    ELSE set_custom_metrics_endpoints(vector_cfg, custom_metrics_eps)

remove_custom_metrics_keeping_sink(vector_cfg, custom_metrics_ep) ==
    LET pod_name_sanitized == sanitize_name(custom_metrics_ep.pod_name)
    IN  [vector_cfg EXCEPT
            !.sources = Pop(@, pod_name_sanitized \o SCRAPE_SUFFIX),
            !.transforms = Pop(@, pod_name_sanitized \o TRANSFORM_SUFFIX)]

remove_custom_metrics_scrape_config(vector_cfg, custom_metrics_ep) ==
    LET pod_name_sanitized == sanitize_name(custom_metrics_ep.pod_name)
        source_name == pod_name_sanitized \o SCRAPE_SUFFIX
        transform_name == pod_name_sanitized \o TRANSFORM_SUFFIX
        sink_name == pod_name_sanitized \o SINK_SUFFIX
    IN  [vector_cfg EXCEPT
            !.sources = Pop(@, source_name),
            !.transforms = Pop(@, transform_name),
            !.sinks = Pop(@, sink_name)]

set_logs_config(vector_cfg) ==
    IF ~reloader_cfg.logs_enabled THEN vector_cfg
    ELSE [vector_cfg EXCEPT
            !.sources = Put(Put(@, JOURNALD_LOGS_SOURCE_NAME, [type |-> "journald"]),
                            DMESG_LOGS_SOURCE_NAME, [type |-> "file"]),
            !.transforms = Put(@, ENRICH_LOGS_TRANSFORM_NAME,
                            [type |-> "remap",
                             inputs |-> <<JOURNALD_LOGS_SOURCE_NAME, DMESG_LOGS_SOURCE_NAME>>,
                             source |-> LiteralStr("enrich_logs_transform_source")]),
            !.sinks = Put(@, CRUSOE_INGEST_SINK_NAME,
                            [type |-> "http",
                             inputs |-> <<ENRICH_LOGS_TRANSFORM_NAME>>,
                             endpoint |-> "logs/ingest"])]

\* The baseline template at VECTOR_BASE_CONFIG_PATH, as yaml.safe_load
\* returns it.
BaseConfig ==
    [sources |-> Put(EmptyDict, HOST_METRICS_SOURCE_NAME, [type |-> "host_metrics"]),
     transforms |-> Put(EmptyDict, NODE_METRICS_VECTOR_TRANSFORM_NAME,
                        [type |-> "remap",
                         inputs |-> <<HOST_METRICS_SOURCE_NAME>>,
                         source |-> PlainStr(".")]),
     sinks |-> Put(EmptyDict, NODE_METRICS_SINK_NAME,
                        [type |-> "prometheus_remote_write",
                         inputs |-> <<NODE_METRICS_VECTOR_TRANSFORM_NAME>>,
                         endpoint |-> ""])]

\* ------------------------------------------------------------------------
\* Pods and the exporter classifier
\* ------------------------------------------------------------------------

CUSTOM_METRICS_PORT_ANNOTATION == "crusoe.ai/port"
CUSTOM_METRICS_PATH_ANNOTATION == "crusoe.ai/path"

\* the annotation the tests put a per-pod scrape interval under; the program
\* defines no such key and reads none
CUSTOM_METRICS_SCRAPE_INTERVAL_ANNOTATION == "CUSTOM_METRICS_SCRAPE_INTERVAL_ANNOTATION"

ScrapeTrue == (CUSTOM_METRICS_SCRAPE_ANNOTATION :> "true")

\* The pods of the model: metadata and assigned IP of each.
PodTable ==
    [cm_w    |-> [name |-> NAME_W_A_B, namespace |-> "default",
                  labels |-> EmptyDict, annotations |-> ScrapeTrue, pod_ip |-> "10.0.0.1"],
     cm_wdot |-> [name |-> NAME_W_DOT_A_B, namespace |-> "default",
                  labels |-> EmptyDict, annotations |-> ScrapeTrue, pod_ip |-> "10.0.0.2"],
     cm_svc  |-> [name |-> NAME_SVC_B_456, namespace |-> "default",
                  labels |-> EmptyDict,
                  annotations |-> (CUSTOM_METRICS_SCRAPE_ANNOTATION :> "true")
                                  @@ (CUSTOM_METRICS_PORT_ANNOTATION :> <<"9","2","0","0">>)
                                  @@ (CUSTOM_METRICS_PATH_ANNOTATION :> "/m")
                                  @@ (CUSTOM_METRICS_SCRAPE_INTERVAL_ANNOTATION :> <<"3">>),
                  pod_ip |-> "10.0.0.10"],
     cm_bad  |-> [name |-> NAME_BAD_A_B, namespace |-> "default",
                  labels |-> EmptyDict,
                  annotations |-> (CUSTOM_METRICS_SCRAPE_ANNOTATION :> "true")
                                  @@ (CUSTOM_METRICS_PORT_ANNOTATION :> <<"a","b","c">>),
                  pod_ip |-> "10.0.0.11"],
     cm_dcgm |-> [name |-> NAME_DCGM_EXPORTER, namespace |-> "default",
                  labels |-> EmptyDict, annotations |-> ScrapeTrue, pod_ip |-> "10.0.0.3"],
     cm_ksm  |-> [name |-> NAME_KUBE_STATE_METRICS, namespace |-> "default",
                  labels |-> EmptyDict, annotations |-> ScrapeTrue, pod_ip |-> "10.0.0.4"],
     dcgm    |-> [name |-> NAME_DCGM_POD, namespace |-> "gpu-operator",
                  labels |-> ("app" :> DCGM_EXPORTER_APP_LABEL),
                  annotations |-> EmptyDict, pod_ip |-> "10.0.0.5"],
     dcgm2   |-> [name |-> NAME_DCGM_POD_2, namespace |-> "gpu-operator",
                  labels |-> ("app" :> DCGM_EXPORTER_APP_LABEL),
                  annotations |-> EmptyDict, pod_ip |-> "10.0.0.9"],
     ksm     |-> [name |-> NAME_KSM_POD, namespace |-> "kube-system",
                  labels |-> (AMD_LABEL_KEY :> KUBE_STATE_METRICS_APP_LABEL),
                  annotations |-> EmptyDict, pod_ip |-> "10.0.0.6"],
     amd     |-> [name |-> NAME_AMD_POD, namespace |-> DEFAULT_AMD_NAMESPACE,
                  labels |-> (AMD_LABEL_KEY :> DEFAULT_AMD_APP_LABEL),
                  annotations |-> EmptyDict, pod_ip |-> "10.0.0.7"],
     other   |-> [name |-> NAME_OTHER_POD, namespace |-> "default",
                  labels |-> EmptyDict, annotations |-> EmptyDict, pod_ip |-> "10.0.0.8"],
     multi_cdk |-> [name |-> <<"m","-","1">>, namespace |-> "default",
                  labels |-> ("app" :> DCGM_EXPORTER_APP_LABEL)
                             @@ (AMD_LABEL_KEY :> KUBE_STATE_METRICS_APP_LABEL),
                  annotations |-> ScrapeTrue, pod_ip |-> "10.0.0.12"],
     multi_dk |-> [name |-> <<"m","-","2">>, namespace |-> "default",
                  labels |-> ("app" :> DCGM_EXPORTER_APP_LABEL)
                             @@ (AMD_LABEL_KEY :> KUBE_STATE_METRICS_APP_LABEL),
                  annotations |-> EmptyDict, pod_ip |-> "10.0.0.13"],
     multi_da |-> [name |-> <<"m","-","3">>, namespace |-> DEFAULT_AMD_NAMESPACE,
                  labels |-> ("app" :> DCGM_EXPORTER_APP_LABEL)
                             @@ (AMD_LABEL_KEY :> DEFAULT_AMD_APP_LABEL),
                  annotations |-> EmptyDict, pod_ip |-> "10.0.0.14"],
     multi_ca |-> [name |-> <<"m","-","4">>, namespace |-> DEFAULT_AMD_NAMESPACE,
                  labels |-> (AMD_LABEL_KEY :> DEFAULT_AMD_APP_LABEL),
                  annotations |-> ScrapeTrue, pod_ip |-> "10.0.0.15"],
     cm_noip |-> [name |-> <<"n","-","1">>, namespace |-> "default",
                  labels |-> EmptyDict, annotations |-> ScrapeTrue, pod_ip |-> ""],
     dcgm_noip |-> [name |-> <<"n","-","2">>, namespace |-> "gpu-operator",
                  labels |-> ("app" :> DCGM_EXPORTER_APP_LABEL),
                  annotations |-> EmptyDict, pod_ip |-> ""]]

is_custom_metrics_pod(pod) ==
    /\ CUSTOM_METRICS_SCRAPE_ANNOTATION \in DOMAIN pod.annotations
    /\ pod.annotations[CUSTOM_METRICS_SCRAPE_ANNOTATION] = "true"

is_dcgm_exporter_pod(pod) ==
    /\ "app" \in DOMAIN pod.labels
    /\ pod.labels["app"] = DCGM_EXPORTER_APP_LABEL

is_kube_state_metrics_pod(pod) ==
    /\ "app.kubernetes.io/name" \in DOMAIN pod.labels
    /\ pod.labels["app.kubernetes.io/name"] = KUBE_STATE_METRICS_APP_LABEL

\* AmdExporterManager.is_exporter_pod
is_exporter_pod(pod) ==
    /\ DOMAIN pod.labels # {}
    /\ pod.namespace = DEFAULT_AMD_NAMESPACE
    /\ AMD_LABEL_KEY \in DOMAIN pod.labels
    /\ pod.labels[AMD_LABEL_KEY] = DEFAULT_AMD_APP_LABEL

\* int(s) for a str of decimal digits
RECURSIVE int(_)
int(s) ==
    IF s = <<>> THEN 0
    ELSE 10 * int(SubSeq(s, 1, Len(s) - 1)) + (Ord(s[Len(s)]) - Ord("0"))

\* int(annotations[CUSTOM_METRICS_PORT_ANNOTATION]) raises ValueError: the
\* annotation is not a str of decimal digits
endpoint_cfg_raises(pod) ==
    /\ CUSTOM_METRICS_PORT_ANNOTATION \in DOMAIN pod.annotations
    /\ LET s == pod.annotations[CUSTOM_METRICS_PORT_ANNOTATION]
       IN  s = <<>> \/ \E i \in 1..Len(s) :
                            s[i] \notin {"0","1","2","3","4","5","6","7","8","9"}

get_custom_metrics_endpoint_cfg(pod) ==
    LET port == IF CUSTOM_METRICS_PORT_ANNOTATION \in DOMAIN pod.annotations
                THEN int(pod.annotations[CUSTOM_METRICS_PORT_ANNOTATION])
                ELSE CUSTOM_CONFIG_PORT
        path == IF CUSTOM_METRICS_PATH_ANNOTATION \in DOMAIN pod.annotations
                THEN pod.annotations[CUSTOM_METRICS_PATH_ANNOTATION]
                ELSE "/metrics"
    IN  [url |-> Url(pod.pod_ip, port, path),
         pod_ip |-> pod.pod_ip,
         pod_name |-> pod.name,
         deployment_name |-> deployment_name_of(pod.name)]

\* ------------------------------------------------------------------------
\* Bounds and input sets
\* ------------------------------------------------------------------------

\* longest endpoint list handed to set_custom_metrics_scrape_config
MaxEps == 2

PolicyA ==
    [allowlist |-> <<"m1">>, droplist |-> <<"m2">>, dropLabels |-> <<"l1">>,
     addLabels |-> << <<"team", "w">> >>, scrape_interval_secs |-> <<3>>]

NoRules == [readable |-> TRUE, rules |-> EmptyDict]

RulesA == [readable |-> TRUE, rules |-> (DEPLOYMENT_W :> PolicyA)]

RuleObjects == {NoRules, RulesA}

AllEnabled ==
    [dcgm_metrics_enabled |-> TRUE, ksm_enabled |-> TRUE, amd_enabled |-> TRUE,
     custom_metrics_enabled |-> TRUE, logs_enabled |-> TRUE]

ReloaderConfigs ==
    {AllEnabled,
     [AllEnabled EXCEPT !.dcgm_metrics_enabled = FALSE],
     [AllEnabled EXCEPT !.custom_metrics_enabled = FALSE, !.logs_enabled = FALSE]}

EditorCustomPods == {"cm_w", "cm_wdot", "cm_dcgm", "cm_ksm"}

CustomEndpoints == {get_custom_metrics_endpoint_cfg(PodTable[p]) : p \in EditorCustomPods}

\* the lists of custom-metrics endpoints a pod listing can yield: a pod is
\* listed once, in any order
EndpointLists ==
    UNION {{eps \in [1..n -> CustomEndpoints] :
                \A i, j \in 1..n : eps[i] = eps[j] => i = j} : n \in 0..MaxEps}

DcgmEndpoints == {<<>>, <<get_dcgm_exporter_scrape_endpoint(PodTable["dcgm"].pod_ip)>>}

KsmEndpoints == {<<>>, <<get_kube_state_metrics_scrape_endpoint(PodTable["ksm"].pod_ip)>>}

AmdEndpoints == {<<>>, <<build_endpoint(PodTable["amd"].pod_ip)>>}

\* ------------------------------------------------------------------------
\* Persistence
\* ------------------------------------------------------------------------

\* yaml.safe_load: every LiteralStr that was dumped comes back as a plain str
load_yaml_config(stored) ==
    [stored EXCEPT
        !.transforms = [k \in DOMAIN @ |-> [@[k] EXCEPT !.source.literal = FALSE]]]

\* yaml.safe_dump writes the mapping keys sorted and each list in its order
save_yaml(cfg) == cfg

\* transforms[enrich_node_metrics]["source"] = self.node_metrics_vector_transform_source
with_node_metrics_source(cfg) ==
    [cfg EXCEPT !.transforms[NODE_METRICS_VECTOR_TRANSFORM_NAME].source =
        LiteralStr("node_metrics_vector_transform_source")]

\* ------------------------------------------------------------------------
\* Reconciler
\* ------------------------------------------------------------------------

\* the pods of the node that the reloader runs against
DaemonPods == {"cm_w", "cm_dcgm", "dcgm"}

\* a node on which the dcgm exporter pod is being replaced by a new one
ReplacementPods == {"dcgm", "dcgm2"}

NodePopulations == {DaemonPods, ReplacementPods}

\* most pod events, and most ConfigMap events, delivered in one run
MaxPodEvents == 2

MaxCmEvents == 1

\* most events whose handler raises in one run
MaxFaults == 1

\* most collection threads left running by join timeouts at one time
MaxThreads == 2

Deleted == [readable |-> FALSE, rules |-> EmptyDict]

\* all orders in which the API can list the pods of S
Listings(S) ==
    {l \in [1..Cardinality(S) -> S] : \A i, j \in 1..Cardinality(S) : l[i] = l[j] => i = j}

RunningPods == {p \in DOMAIN pods : pods[p] = "Running"}

\* the custom-metrics descriptors of a listing, in listing order
RECURSIVE custom_eps_of(_)
custom_eps_of(listing) ==
    IF listing = <<>> THEN <<>>
    ELSE IF is_custom_metrics_pod(PodTable[Head(listing)])
         THEN <<get_custom_metrics_endpoint_cfg(PodTable[Head(listing)])>>
                \o custom_eps_of(Tail(listing))
         ELSE custom_eps_of(Tail(listing))

\* a classification that tests the labels before the annotation
kind_of_labels_first(pod) ==
    IF is_dcgm_exporter_pod(pod) THEN "dcgm"
    ELSE IF is_kube_state_metrics_pod(pod) THEN "ksm"
    ELSE IF is_exporter_pod(pod) THEN "amd"
    ELSE IF is_custom_metrics_pod(pod) THEN "custom"
    ELSE "none"

\* the exporter kind of a pod: the first predicate that matches
kind_of(pod) ==
    IF is_custom_metrics_pod(pod) THEN "custom"
    ELSE IF is_dcgm_exporter_pod(pod) THEN "dcgm"
    ELSE IF is_kube_state_metrics_pod(pod) THEN "ksm"
    ELSE IF is_exporter_pod(pod) THEN "amd"
    ELSE "none"

\* the pod_ip of the last pod of the kind in the listing, <<>> when the
\* listing has none (the endpoint stays None)
last_ip_of(listing, kind) ==
    LET idx == {i \in 1..Len(listing) : kind_of(PodTable[listing[i]]) = kind}
    IN  IF idx = {} THEN <<>>
        ELSE <<PodTable[listing[CHOOSE i \in idx : \A j \in idx : j <= i]].pod_ip>>

bootstrap_config(listing) ==
    LET with_custom == set_custom_metrics_scrape_config(BaseConfig, custom_eps_of(listing))
        dcgm_ip == last_ip_of(listing, "dcgm")
        dcgm_exporter_ep == IF dcgm_ip = <<>> THEN <<>>
                            ELSE <<get_dcgm_exporter_scrape_endpoint(dcgm_ip[1])>>
        with_dcgm == set_dcgm_exporter_scrape_config(with_custom, dcgm_exporter_ep)
        ksm_ip == last_ip_of(listing, "ksm")
        ksm_ep == IF ksm_ip = <<>> THEN <<>>
                  ELSE <<get_kube_state_metrics_scrape_endpoint(ksm_ip[1])>>
        with_ksm == set_kube_state_metrics_scrape_config(with_dcgm, ksm_ep)
        with_logs == set_logs_config(with_ksm)
        amd_ip == last_ip_of(listing, "amd")
        amd_exporter_ep == IF amd_ip = <<>> THEN <<>> ELSE <<build_endpoint(amd_ip[1])>>
        with_amd == IF reloader_cfg.amd_enabled /\ amd_exporter_ep # <<>>
                    THEN set_scrape(with_logs, amd_exporter_ep,
                                    NODE_METRICS_VECTOR_TRANSFORM_NAME)
                    ELSE with_logs
    IN  with_node_metrics_source(
            [with_amd EXCEPT !.sinks[NODE_METRICS_SINK_NAME].endpoint = "ingest"])

\* the edit handle_pod_event makes for a Running or Terminating pod of a
\* recognized kind
pod_event_edit(cfg, event) ==
    LET pod == PodTable[event.pod]
        kind == kind_of(pod)
    IN  IF event.phase = "Running"
        THEN CASE kind = "custom" ->
                    set_custom_metrics_scrape_config(cfg, <<get_custom_metrics_endpoint_cfg(pod)>>)
               [] kind = "dcgm" ->
                    set_dcgm_exporter_scrape_config(cfg,
                        <<get_dcgm_exporter_scrape_endpoint(pod.pod_ip)>>)
               [] kind = "ksm" ->
                    set_kube_state_metrics_scrape_config(cfg,
                        <<get_kube_state_metrics_scrape_endpoint(pod.pod_ip)>>)
               [] kind = "amd" ->
                    IF reloader_cfg.amd_enabled
                    THEN set_scrape(cfg, <<build_endpoint(pod.pod_ip)>>,
                                    NODE_METRICS_VECTOR_TRANSFORM_NAME)
                    ELSE cfg
        ELSE CASE kind = "custom" ->
                    remove_custom_metrics_scrape_config(cfg, get_custom_metrics_endpoint_cfg(pod))
               [] kind = "dcgm" -> remove_dcgm_exporter_scrape_config(cfg)
               [] kind = "ksm" -> remove_kube_state_metrics_scrape_config(cfg)
               [] kind = "amd" -> remove_scrape(cfg, NODE_METRICS_VECTOR_TRANSFORM_NAME)

RECURSIVE remove_all(_, _)
remove_all(cfg, eps) ==
    IF eps = <<>> THEN cfg
    ELSE remove_all(remove_custom_metrics_scrape_config(cfg, Head(eps)), Tail(eps))

\* the edit of refresh_custom_metrics_config: remove, then re-add
refresh_edit(cfg, custom_metrics_eps) ==
    set_custom_metrics_scrape_config(remove_all(cfg, custom_metrics_eps), custom_metrics_eps)

\* ------------------------------------------------------------------------
\* The reloader process and its cluster (Spec)
\* ------------------------------------------------------------------------

NoGraph == [sources |-> EmptyDict, transforms |-> EmptyDict, sinks |-> EmptyDict]

NoEvent == [type |-> "none", pod |-> "none", phase |-> "none"]

NoCall == [op |-> "none", eps |-> <<>>, rule |-> NoRules, warned |-> {}]

\* the log collector is a process of its own: it does not run
NoCollector ==
    [pc |-> "off", node |-> <<>>, task |-> <<>>, outcome |-> "none",
     invoked |-> {}, result |-> <<>>, reports |-> <<>>, abandoned |-> 0]

\* the reloader before execute() has begun
ProcessAtStart ==
    /\ collector = NoCollector
    /\ podStream = <<>>
    /\ cmStream = <<>>
    /\ podEvents = 0
    /\ cmEvents = 0
    /\ file = NoGraph
    /\ pcMain = "bootstrap"
    /\ running = TRUE
    /\ podPc = "wait"
    /\ podEvent = NoEvent
    /\ podCfg = NoGraph
    /\ cmPc = "wait"
    /\ cmObject = <<>>
    /\ cmCfg = NoGraph
    /\ cmEps = <<>>
    /\ cache = <<>>
    /\ faults = <<>>

Init ==
    /\ reloader_cfg \in ReloaderConfigs
    /\ ruleObject \in RuleObjects
    /\ pods \in UNION {[P -> {"Absent", "Running"}] : P \in NodePopulations}
    /\ ProcessAtStart
    /\ graph = NoGraph
    /\ call = NoCall

pvars == <<pods, podStream, cmStream, podEvents, cmEvents, file, pcMain, running,
           podPc, podEvent, podCfg, cmPc, cmObject, cmCfg, cmEps, cache, faults>>

\* the loop over the listed Running pods raises: get_custom_metrics_endpoint_cfg
\* is called for a custom-metrics pod whose port annotation is no number
ListingRaises ==
    \E p \in RunningPods :
        is_custom_metrics_pod(PodTable[p]) /\ endpoint_cfg_raises(PodTable[p])

\* execute(): bootstrap_config(), then both watch threads are started (an
\* exception of bootstrap_config leaves execute() and ends the process); the
\* ConfigMap watch begins with an ADDED event for the rule object that is
\* in the cluster
Bootstrap ==
    /\ pcMain = "bootstrap"
    /\ IF ListingRaises
       THEN /\ pcMain' = "crashed"
            /\ UNCHANGED <<file, cmStream>>
       ELSE /\ \E listing \in Listings(RunningPods) :
                  file' = save_yaml(bootstrap_config(listing))
            /\ pcMain' = "watching"
            /\ cmStream' = IF ruleObject.readable
                           THEN <<[type |-> "ADDED", name |-> CUSTOM_METRICS_CONFIG_MAP_NAME,
                                   data |-> ruleObject]>>
                           ELSE <<>>
    /\ UNCHANGED <<collector, reloader_cfg, ruleObject, pods, podStream, podEvents,
                   cmEvents, running, podPc, podEvent, podCfg, cmPc, cmObject, cmCfg, cmEps,
                   cache, graph, call, faults>>

NextPhase(phase) ==
    CASE phase = "Absent" -> "Pending"
      [] phase = "Pending" -> "Running"
      [] phase = "Running" -> "Terminating"
      [] phase = "Terminating" -> "Absent"

\* cluster: a pod of the node moves to its next phase and the watch
\* delivers the event, which carries the pod as it is now (a deleted pod as
\* it last was)
PodPhaseChange ==
    /\ pcMain = "watching"
    /\ podEvents < MaxPodEvents
    /\ \E p \in DOMAIN pods :
          /\ pods' = [pods EXCEPT ![p] = NextPhase(@)]
          /\ podStream' = Append(podStream,
                [type |-> CASE pods[p] = "Absent" -> "ADDED"
                            [] pods[p] = "Terminating" -> "DELETED"
                            [] OTHER -> "MODIFIED",
                 pod |-> p,
                 phase |-> IF pods[p] = "Terminating" THEN "Terminating" ELSE pods'[p]])
    /\ podEvents' = podEvents + 1
    /\ UNCHANGED <<collector, reloader_cfg, ruleObject, cmStream, cmEvents, file, pcMain, running,
                   podPc, podEvent, podCfg, cmPc, cmObject, cmCfg, cmEps, cache, graph, call, faults>>

\* cluster: the watch delivers an event for a pod whose phase has not
\* changed (the first listing of the watch, a status update)
PodStatusEvent ==
    /\ pcMain = "watching"
    /\ podEvents < MaxPodEvents
    /\ \E p \in DOMAIN pods :
          /\ pods[p] # "Absent"
          /\ podStream' = Append(podStream,
                [type |-> "MODIFIED", pod |-> p, phase |-> pods[p]])
    /\ podEvents' = podEvents + 1
    /\ UNCHANGED <<collector, reloader_cfg, ruleObject, pods, cmStream, cmEvents, file, pcMain,
                   running, podPc, podEvent, podCfg, cmPc, cmObject, cmCfg, cmEps, cache, graph, call, faults>>

\* cluster: the rule object is edited, deleted or created again
RuleObjectEvent ==
    /\ pcMain = "watching"
    /\ cmEvents < MaxCmEvents
    /\ \E r \in (RuleObjects \cup {Deleted}) \ {ruleObject} :
          /\ ruleObject' = r
          /\ cmStream' = Append(cmStream,
                [type |-> IF r = Deleted THEN "DELETED"
                          ELSE IF ruleObject = Deleted THEN "ADDED" ELSE "MODIFIED",
                 name |-> CUSTOM_METRICS_CONFIG_MAP_NAME,
                 data |-> IF r = Deleted THEN ruleObject ELSE r])
    /\ cmEvents' = cmEvents + 1
    /\ UNCHANGED <<collector, reloader_cfg, pods, podStream, podEvents, file, pcMain, running,
                   podPc, podEvent, podCfg, cmPc, cmObject, cmCfg, cmEps, cache, graph, call, faults>>

\* the loop's test of self.running after an event
\* a loop that never tests the running flag
AfterEventIgnoringFlag ==
    "wait"

AfterEvent ==
    IF running THEN "wait" ELSE "done"

\* handle_pod_event up to and including the load of the persisted graph
PodTake ==
    /\ pcMain = "watching"
    /\ podPc = "wait"
    /\ podStream # <<>>
    /\ podStream' = Tail(podStream)
    /\ IF Head(podStream).phase \in {"Running", "Terminating"}
       THEN /\ podEvent' = Head(podStream)
            /\ podCfg' = load_yaml_config(file)
            /\ podPc' = "loaded"
       ELSE /\ podPc' = AfterEvent
            /\ UNCHANGED <<podEvent, podCfg>>
    /\ UNCHANGED <<collector, reloader_cfg, ruleObject, pods, cmStream, podEvents, cmEvents, file,
                   pcMain, running, cmPc, cmObject, cmCfg, cmEps, cache, graph, call, faults>>

PodLoadEscapes ==
    /\ pcMain = "watching"
    /\ podPc = "wait"
    /\ podStream # <<>>
    /\ Head(podStream).phase \in {"Running", "Terminating"}
    /\ Len(faults) < MaxFaults
    /\ podStream' = Tail(podStream)
    /\ podPc' = "done"
    /\ faults' = Append(faults, "pod")
    /\ UNCHANGED <<collector, reloader_cfg, ruleObject, pods, cmStream, podEvents, cmEvents, file,
                   pcMain, running, podEvent, podCfg, cmPc, cmObject, cmCfg, cmEps, cache, graph,
                   call>>

\* handle_pod_event raises at its load of the persisted graph (the file
\* cannot be read); run_pod_event_handler logs the error and goes on
PodLoadFails ==
    /\ pcMain = "watching"
    /\ podPc = "wait"
    /\ podStream # <<>>
    /\ Head(podStream).phase \in {"Running", "Terminating"}
    /\ Len(faults) < MaxFaults
    /\ podStream' = Tail(podStream)
    /\ podPc' = AfterEvent
    /\ faults' = Append(faults, "pod")
    /\ UNCHANGED <<collector, reloader_cfg, ruleObject, pods, cmStream, podEvents, cmEvents, file,
                   pcMain, running, podEvent, podCfg, cmPc, cmObject, cmCfg, cmEps, cache, graph,
                   call>>

\* a handler that removes on every DELETED event, whatever the pod's phase
PodApplyByEventType ==
    /\ podPc = "loaded"
    /\ IF \/ kind_of(PodTable[podEvent.pod]) = "none"
          \/ /\ kind_of(PodTable[podEvent.pod]) = "custom"
             /\ endpoint_cfg_raises(PodTable[podEvent.pod])
       THEN UNCHANGED file
       ELSE file' = save_yaml(with_node_metrics_source(
                        pod_event_edit(podCfg,
                            IF podEvent.type = "DELETED"
                            THEN [podEvent EXCEPT !.phase = "Terminating"]
                            ELSE podEvent)))
    /\ podPc' = AfterEvent
    /\ podEvent' = NoEvent
    /\ podCfg' = NoGraph
    /\ UNCHANGED <<collector, reloader_cfg, ruleObject, pods, podStream, cmStream, podEvents,
                   cmEvents, pcMain, running, cmPc, cmObject, cmCfg, cmEps, cache, graph, call, faults>>

\* a handler that writes the graph it loaded back for a pod of no kind
PodApplyRewritingAlways ==
    /\ podPc = "loaded"
    /\ IF kind_of(PodTable[podEvent.pod]) = "none"
       THEN file' = save_yaml(with_node_metrics_source(podCfg))
       ELSE IF /\ kind_of(PodTable[podEvent.pod]) = "custom"
               /\ endpoint_cfg_raises(PodTable[podEvent.pod])
       THEN UNCHANGED file
       ELSE file' = save_yaml(with_node_metrics_source(pod_event_edit(podCfg, podEvent)))
    /\ podPc' = AfterEvent
    /\ podEvent' = NoEvent
    /\ podCfg' = NoGraph
    /\ UNCHANGED <<collector, reloader_cfg, ruleObject, pods, podStream, cmStream, podEvents,
                   cmEvents, pcMain, running, cmPc, cmObject, cmCfg, cmEps, cache, graph, call, faults>>

\* handle_pod_event from the classification to the save; for a pod of no
\* kind it returns, and an exception of get_custom_metrics_endpoint_cfg is
\* logged by the loop: neither saves
PodApply ==
    /\ podPc = "loaded"
    /\ IF \/ kind_of(PodTable[podEvent.pod]) = "none"
          \/ /\ kind_of(PodTable[podEvent.pod]) = "custom"
             /\ endpoint_cfg_raises(PodTable[podEvent.pod])
       THEN UNCHANGED file
       ELSE file' = save_yaml(with_node_metrics_source(pod_event_edit(podCfg, podEvent)))
    /\ podPc' = AfterEvent
    /\ podEvent' = NoEvent
    /\ podCfg' = NoGraph
    /\ UNCHANGED <<collector, reloader_cfg, ruleObject, pods, podStream, cmStream, podEvents,
                   cmEvents, pcMain, running, cmPc, cmObject, cmCfg, cmEps, cache, graph, call, faults>>

CmTakeRefreshingOnDelete ==
    /\ pcMain = "watching"
    /\ cmPc = "wait"
    /\ cmStream # <<>>
    /\ cmStream' = Tail(cmStream)
    /\ cache' = IF Head(cmStream).name = CUSTOM_METRICS_CONFIG_MAP_NAME
                THEN <<Head(cmStream).data>>
                ELSE cache
    /\ cmCfg' = load_yaml_config(file)
    /\ cmPc' = "loaded"
    /\ cmObject' = Head(cmStream).name
    /\ UNCHANGED <<collector, reloader_cfg, ruleObject, pods, podStream, podEvents, cmEvents, file,
                   pcMain, running, podPc, podEvent, podCfg, cmEps, graph, call, faults>>

\* handle_custom_metrics_config_map_event, and for an added or modified
\* object refresh_custom_metrics_config up to the load of the persisted graph
CmTake ==
    /\ pcMain = "watching"
    /\ cmPc = "wait"
    /\ cmStream # <<>>
    /\ cmStream' = Tail(cmStream)
    /\ cache' = IF Head(cmStream).name = CUSTOM_METRICS_CONFIG_MAP_NAME
                THEN <<Head(cmStream).data>>
                ELSE cache
    /\ IF Head(cmStream).type \in {"ADDED", "MODIFIED"}
       THEN /\ cmCfg' = load_yaml_config(file)
            /\ cmPc' = "loaded"
            /\ cmObject' = Head(cmStream).name
       ELSE /\ cmPc' = AfterEvent
            /\ cmObject' = <<>>
            /\ UNCHANGED cmCfg
    /\ UNCHANGED <<collector, reloader_cfg, ruleObject, pods, podStream, podEvents, cmEvents, file,
                   pcMain, running, podPc, podEvent, podCfg, cmEps, graph, call, faults>>

\* refresh_custom_metrics_config: the listing of the Running pods
CmList ==
    /\ cmPc = "loaded"
    /\ IF ListingRaises
       THEN /\ cmPc' = AfterEvent
            /\ cmObject' = <<>>
            /\ cmCfg' = NoGraph
            /\ UNCHANGED cmEps
       ELSE /\ \E listing \in Listings(RunningPods) : cmEps' = custom_eps_of(listing)
            /\ cmPc' = "listed"
            /\ UNCHANGED cmObject
            /\ UNCHANGED cmCfg
    /\ UNCHANGED <<collector, reloader_cfg, ruleObject, pods, podStream, cmStream, podEvents,
                   cmEvents, file, pcMain, running, podPc, podEvent, podCfg,
                   cache, graph, call, faults>>

\* refresh_custom_metrics_config raises at its listing of the pods (the
\* API call fails); run_config_map_event_handler logs the error and goes on
CmListFails ==
    /\ cmPc = "loaded"
    /\ Len(faults) < MaxFaults
    /\ cmPc' = AfterEvent
    /\ cmObject' = <<>>
    /\ cmCfg' = NoGraph
    /\ faults' = Append(faults, "cm")
    /\ UNCHANGED <<collector, reloader_cfg, ruleObject, pods, podStream, cmStream, podEvents,
                   cmEvents, file, pcMain, running, podPc, podEvent, podCfg, cmEps,
                   cache, graph, call>>

\* refresh_custom_metrics_config: remove, re-add and save
CmApply ==
    /\ cmPc = "listed"
    /\ file' = save_yaml(refresh_edit(cmCfg, cmEps))
    /\ cmPc' = AfterEvent
    /\ cmObject' = <<>>
    /\ cmCfg' = NoGraph
    /\ cmEps' = <<>>
    /\ UNCHANGED <<collector, reloader_cfg, ruleObject, pods, podStream, cmStream, podEvents,
                   cmEvents, pcMain, running, podPc, podEvent, podCfg, cache, graph, call, faults>>

\* handle_sigterm
Sigterm ==
    /\ pcMain = "watching"
    /\ running
    /\ running' = FALSE
    /\ UNCHANGED <<collector, reloader_cfg, ruleObject, pods, podStream, cmStream, podEvents,
                   cmEvents, file, pcMain, podPc, podEvent, podCfg, cmPc, cmObject, cmCfg, cmEps,
                   cache, graph, call, faults>>

Next ==
    \/ Bootstrap
    \/ PodPhaseChange
    \/ PodStatusEvent
    \/ RuleObjectEvent
    \/ PodTake
    \/ PodLoadFails
    \/ PodApply
    \/ CmTake
    \/ CmList
    \/ CmListFails
    \/ CmApply
    \/ Sigterm

vars == <<collector, reloader_cfg, ruleObject, pods, podStream, cmStream, podEvents, cmEvents, file,
          pcMain, running, podPc, podEvent, podCfg, cmPc, cmObject, cmCfg, cmEps, cache, graph, call,
          faults>>

Spec == Init /\ [][Next]_vars

\* ------------------------------------------------------------------------
\* The reloader process from construction to exit, with failing streams and
\* failing writes (FaultSpec, and FairSpec for what must eventually happen)
\* ------------------------------------------------------------------------

\* the nodes the process is constructed on
FaultPopulations == {{"cm_w", "cm_bad"}, {"cm_w", "dcgm", "other"}}

FaultInit ==
    /\ collector = NoCollector
    /\ reloader_cfg = AllEnabled
    /\ ruleObject \in RuleObjects
    /\ pods \in UNION {[P -> {"Absent", "Running"}] : P \in FaultPopulations}
    /\ podStream = <<>> /\ cmStream = <<>> /\ podEvents = 0 /\ cmEvents = 0
    /\ file = NoGraph /\ pcMain = "init" /\ running = TRUE
    /\ podPc = "wait" /\ podEvent = NoEvent /\ podCfg = NoGraph
    /\ cmPc = "wait" /\ cmObject = <<>> /\ cmCfg = NoGraph /\ cmEps = <<>>
    /\ cache = <<>> /\ faults = <<>>
    /\ graph = NoGraph
    /\ call = NoCall

\* a constructor that logs the failure to read the node's labels and goes on
ConstructIgnoringLabels ==
    /\ pcMain = "init"
    /\ \E node_name_set \in BOOLEAN, node_readable \in BOOLEAN :
          IF ~node_name_set
          THEN pcMain' = "failed" /\ faults' = Append(faults, "NODE_NAME not set")
          ELSE IF ~node_readable
          THEN pcMain' = "bootstrap" /\ faults' = Append(faults, "Failed to fetch node labels")
          ELSE pcMain' = "bootstrap" /\ UNCHANGED faults
    /\ UNCHANGED <<collector, reloader_cfg, ruleObject, pods, podStream, cmStream, podEvents,
                   cmEvents, file, running, podPc, podEvent, podCfg, cmPc, cmObject, cmCfg, cmEps,
                   cache, graph, call>>

\* VectorConfigReloader(): NODE_NAME missing raises RuntimeError, an
\* ApiException of read_node ends in sys.exit(1); otherwise execute() begins
Construct ==
    /\ pcMain = "init"
    /\ \E node_name_set \in BOOLEAN, node_readable \in BOOLEAN :
          IF ~node_name_set
          THEN pcMain' = "failed" /\ faults' = Append(faults, "NODE_NAME not set")
          ELSE IF ~node_readable
          THEN pcMain' = "failed" /\ faults' = Append(faults, "Failed to fetch node labels")
          ELSE pcMain' = "bootstrap" /\ UNCHANGED faults
    /\ UNCHANGED <<collector, reloader_cfg, ruleObject, pods, podStream, cmStream, podEvents,
                   cmEvents, file, running, podPc, podEvent, podCfg, cmPc, cmObject, cmCfg, cmEps,
                   cache, graph, call>>

\* the pod watch raises ApiException while the loop waits for its next
\* event: run_pod_event_handler logs it and returns
PodStreamFails ==
    /\ pcMain = "watching"
    /\ podPc = "wait"
    /\ Len(faults) < MaxFaults
    /\ podPc' = "done"
    /\ faults' = Append(faults, "k8s pod event watcher error")
    /\ UNCHANGED <<collector, reloader_cfg, ruleObject, pods, podStream, cmStream, podEvents,
                   cmEvents, file, pcMain, running, podEvent, podCfg, cmPc, cmObject, cmCfg, cmEps,
                   cache, graph, call>>

\* the same in run_config_map_event_handler
CmStreamFails ==
    /\ pcMain = "watching"
    /\ cmPc = "wait"
    /\ Len(faults) < MaxFaults
    /\ cmPc' = "done"
    /\ UNCHANGED cmObject
    /\ faults' = Append(faults, "k8s config_map event watcher error")
    /\ UNCHANGED <<collector, reloader_cfg, ruleObject, pods, podStream, cmStream, podEvents,
                   cmEvents, file, pcMain, running, podPc, podEvent, podCfg, cmCfg, cmEps,
                   cache, graph, call>>

\* handle_pod_event raises at its save_yaml (open() of the persisted graph
\* fails, the file keeps its content); run_pod_event_handler logs the error
\* and goes on
PodSaveFails ==
    /\ podPc = "loaded"
    /\ kind_of(PodTable[podEvent.pod]) # "none"
    /\ Len(faults) < MaxFaults
    /\ podPc' = AfterEvent
    /\ podEvent' = NoEvent
    /\ podCfg' = NoGraph
    /\ faults' = Append(faults, "save_yaml")
    /\ UNCHANGED <<collector, reloader_cfg, ruleObject, pods, podStream, cmStream, podEvents,
                   cmEvents, file, pcMain, running, cmPc, cmObject, cmCfg, cmEps, cache, graph,
                   call>>

\* execute(): both threads are joined and execute() returns
Join ==
    /\ pcMain = "watching"
    /\ podPc = "done"
    /\ cmPc = "done"
    /\ pcMain' = "exited"
    /\ UNCHANGED <<collector, reloader_cfg, ruleObject, pods, podStream, cmStream, podEvents,
                   cmEvents, file, running, podPc, podEvent, podCfg, cmPc, cmObject, cmCfg, cmEps,
                   cache, graph, call, faults>>

FaultNext ==
    \/ Construct
    \/ Next
    \/ PodStreamFails
    \/ CmStreamFails
    \/ PodSaveFails
    \/ Join

FaultSpec == FaultInit /\ [][FaultNext]_vars

\* the threads of the process are scheduled: a step of the main thread or of
\* a watch loop that stays possible is eventually taken.  Nothing obliges
\* the cluster to deliver an event or to send a signal.
ThreadsScheduled ==
    /\ WF_vars(Construct) /\ WF_vars(Bootstrap) /\ WF_vars(Join)
    /\ WF_vars(PodTake \/ PodLoadFails) /\ WF_vars(PodApply \/ PodSaveFails)
    /\ WF_vars(CmTake) /\ WF_vars(CmList \/ CmListFails) /\ WF_vars(CmApply)

FairSpec == FaultSpec /\ ThreadsScheduled

\* ------------------------------------------------------------------------
\* The reloader on a node whose pod matches several predicates (PrioritySpec)
\* ------------------------------------------------------------------------

\* nodes with one pod that is_custom_metrics_pod, is_dcgm_exporter_pod,
\* is_kube_state_metrics_pod or is_exporter_pod accept more than one of
PriorityPopulations == {{"multi_cdk"}, {"multi_dk"}, {"multi_da"}, {"multi_ca"}}

PriorityInit ==
    /\ reloader_cfg = AllEnabled
    /\ ruleObject \in RuleObjects
    /\ pods \in UNION {[P -> {"Absent", "Running"}] : P \in PriorityPopulations}
    /\ ProcessAtStart
    /\ graph = NoGraph
    /\ call = NoCall

PrioritySpec == PriorityInit /\ [][Next]_vars

\* ------------------------------------------------------------------------
\* The reloader on a node whose pods have no IP assigned (UnreadySpec)
\* ------------------------------------------------------------------------

\* a custom-metrics pod and a dcgm exporter pod whose status.pod_ip is empty
UnreadyPopulations == {{"cm_noip", "dcgm_noip"}}

UnreadyInit ==
    /\ reloader_cfg = AllEnabled
    /\ ruleObject \in RuleObjects
    /\ pods \in UNION {[P -> {"Absent", "Running"}] : P \in UnreadyPopulations}
    /\ ProcessAtStart
    /\ graph = NoGraph
    /\ call = NoCall

UnreadySpec == UnreadyInit /\ [][Next]_vars

\* ------------------------------------------------------------------------
\* The reloader in a namespace that holds other ConfigMaps (NamespaceSpec)
\* ------------------------------------------------------------------------

NamespaceInit ==
    /\ reloader_cfg = AllEnabled
    /\ ruleObject \in RuleObjects
    /\ pods \in [{"cm_w", "other"} -> {"Absent", "Running"}]
    /\ ProcessAtStart
    /\ graph = NoGraph
    /\ call = NoCall

\* cluster: another ConfigMap of the namespace is created, edited or deleted;
\* the watch of list_namespaced_config_map has no field selector and
\* delivers the event
OtherObjectEvent ==
    /\ pcMain = "watching"
    /\ cmEvents < MaxCmEvents
    /\ \E type \in {"ADDED", "MODIFIED", "DELETED"} :
          cmStream' = Append(cmStream,
                [type |-> type, name |-> OTHER_CONFIG_MAP_NAME, data |-> NoRules])
    /\ cmEvents' = cmEvents + 1
    /\ UNCHANGED <<collector, reloader_cfg, ruleObject, pods, podStream, podEvents, file,
                   pcMain, running, podPc, podEvent, podCfg, cmPc, cmObject, cmCfg, cmEps,
                   cache, graph, call, faults>>

NamespaceNext ==
    \/ Next
    \/ OtherObjectEvent

NamespaceSpec == NamespaceInit /\ [][NamespaceNext]_vars

\* ------------------------------------------------------------------------
\* The reloader under pod events of every type (EventTypeSpec)
\* ------------------------------------------------------------------------

\* cluster: the watch delivers an event of any type that carries the pod as
\* it is now: ADDED for a pod of the first listing, DELETED for a pod
\* deleted while its status still says Running
PodEventOfAnyType ==
    /\ pcMain = "watching"
    /\ podEvents < MaxPodEvents
    /\ \E p \in DOMAIN pods, type \in {"ADDED", "MODIFIED", "DELETED"} :
          /\ pods[p] # "Absent"
          /\ podStream' = Append(podStream, [type |-> type, pod |-> p, phase |-> pods[p]])
    /\ podEvents' = podEvents + 1
    /\ UNCHANGED <<collector, reloader_cfg, ruleObject, pods, cmStream, cmEvents, file, pcMain,
                   running, podPc, podEvent, podCfg, cmPc, cmObject, cmCfg, cmEps, cache,
                   graph, call, faults>>

EventTypeNext ==
    \/ Next
    \/ PodEventOfAnyType

EventTypeSpec == NamespaceInit /\ [][EventTypeNext]_vars

\* ------------------------------------------------------------------------
\* The log collector in API mode (CollectorSpec)
\* ------------------------------------------------------------------------

\* the nodes the collector runs on: the node's instance type label, whether
\* a Running driver pod is on the node, and whether the NVIDIA tools of the
\* host can produce a report
CollectorNodes ==
    [instance_type : {"", "a100-80gb.1x", "gb200-320gb.1x"},
     driver_pod : BOOLEAN, host_tools : BOOLEAN]

EventIds == {"evt-123", "evt-456"}

\* what GET /agent/check-tasks can answer
PollResponses ==
    [status_code : {200}, status : {"success", "none"}, event_id : EventIds \cup {""}]
    \cup [status_code : {404, 500, 0}, status : {""}, event_id : {""}]

\* the task as a sequence: <<>> is None
check_for_tasks(response) ==
    IF response.status_code = 200 /\ response.status = "success" /\ response.event_id # ""
    THEN <<response.event_id>>
    ELSE <<>>

\* _is_bundled_driver_mode: 'gb200' in instance_type.lower()
is_bundled_driver_mode(node) == node.instance_type = "gb200-320gb.1x"

\* collect_logs: the executors it invokes and the log path it returns
\* (<<>> is None); exec_ok and download_ok are the outcomes of the report
\* script and of the download from the driver pod
collect_logs(node, exec_ok, download_ok) ==
    IF is_bundled_driver_mode(node)
    THEN [invoked |-> {"local"},
          log_path |-> IF node.host_tools /\ exec_ok THEN <<"local.log.gz">> ELSE <<>>]
    ELSE IF ~node.driver_pod
    THEN [invoked |-> {}, log_path |-> <<>>]
    ELSE [invoked |-> {"pod"},
          log_path |-> IF exec_ok /\ download_ok THEN <<"pod.log.gz">> ELSE <<>>]

\* collect_logs_with_timeout: (success, log_path, error_message) from what
\* the collection thread did before join(timeout) returned
collect_logs_with_timeout(completed, error, log_path) ==
    IF ~completed
    THEN [success |-> FALSE, log_path |-> <<>>, error_msg |-> "Collection timeout"]
    ELSE IF error # ""
    THEN [success |-> FALSE, log_path |-> <<>>, error_msg |-> error]
    ELSE IF log_path # <<>>
    THEN [success |-> TRUE, log_path |-> log_path, error_msg |-> ""]
    ELSE [success |-> FALSE, log_path |-> <<>>,
          error_msg |-> "Collection failed without specific error"]

CollectorInit ==
    /\ collector \in [pc : {"poll"}, node : {<<n>> : n \in CollectorNodes}, task : {<<>>},
                       outcome : {"none"}, invoked : {{}}, result : {<<>>},
                       reports : {<<>>}, abandoned : {0}]
    /\ reloader_cfg = AllEnabled
    /\ ruleObject = NoRules
    /\ pods = [p \in DaemonPods |-> "Absent"]
    /\ podStream = <<>> /\ cmStream = <<>> /\ podEvents = 0 /\ cmEvents = 0
    /\ file = NoGraph /\ pcMain = "init" /\ running = TRUE
    /\ podPc = "wait" /\ podEvent = NoEvent /\ podCfg = NoGraph
    /\ cmPc = "wait" /\ cmObject = <<>> /\ cmCfg = NoGraph /\ cmEps = <<>>
    /\ cache = <<>> /\ faults = <<>>
    /\ graph = NoGraph
    /\ call = NoCall

\* _run_api_mode: task = self.check_for_tasks()
CheckForTasks ==
    /\ collector.pc = "poll"
    /\ \E response \in PollResponses :
          LET task == check_for_tasks(response)
          IN  collector' = [collector EXCEPT
                  !.task = task,
                  !.pc = IF task # <<>> THEN "collect" ELSE "sleep"]
    /\ UNCHANGED <<reloader_cfg, ruleObject, graph, call, pvars>>

\* collect_logs_with_timeout: thread.start().  The daemon thread runs
\* collect_logs (cleanup_old_logs, the report, the download into
\* output_dir) while the loop waits in join.
StartCollection ==
    /\ collector.pc = "collect"
    /\ collector' = [collector EXCEPT !.pc = "join"]
    /\ UNCHANGED <<reloader_cfg, ruleObject, graph, call, pvars>>

\* _run_api_mode: self.collect_logs_with_timeout(event_id) returns.  The
\* thread either ends within the timeout, with a path, None or an
\* exception, or it does not.  A join that times out does not stop the
\* thread: nothing cancels it, so it goes on running collect_logs.
CollectLogs ==
    /\ collector.pc = "join"
    /\ \E completed \in BOOLEAN, raises \in BOOLEAN, exec_ok \in BOOLEAN,
          download_ok \in BOOLEAN :
          LET run == collect_logs(collector.node[1], exec_ok, download_ok)
              error == IF raises THEN "error" ELSE ""
          IN  /\ completed \/ collector.abandoned < MaxThreads
              /\ collector' = [collector EXCEPT
                  !.abandoned = IF completed THEN @ ELSE @ + 1,
                  !.invoked = run.invoked,
                  !.outcome = IF ~completed THEN "timeout"
                              ELSE IF raises THEN "raised"
                              ELSE IF run.log_path # <<>> THEN "file" ELSE "no file",
                  !.result = <<collect_logs_with_timeout(completed, error, run.log_path)>>,
                  !.pc = "report"]
    /\ UNCHANGED <<reloader_cfg, ruleObject, graph, call, pvars>>

\* collection_target returns in a thread whose join had timed out
CollectionThreadEnds ==
    /\ collector.pc # "off"
    /\ collector.abandoned > 0
    /\ collector' = [collector EXCEPT !.abandoned = @ - 1]
    /\ UNCHANGED <<reloader_cfg, ruleObject, graph, call, pvars>>

\* a report of report_result and whether the API accepted it
Report(status, log_file, message, accepted) ==
    [status |-> status, log_file |-> log_file, message |-> message, accepted |-> accepted]

ReportResultRetryingUpload ==
    /\ collector.pc = "report"
    /\ LET r == collector.result[1]
       IN  \E accepted \in BOOLEAN :
             IF r.success /\ r.log_path # <<>>
             THEN collector' = [collector EXCEPT
                     !.reports = Append(@, Report("success", r.log_path, "", accepted)),
                     !.pc = IF accepted THEN "sleep" ELSE "report"]
             ELSE collector' = [collector EXCEPT
                     !.reports = <<Report("failed", <<>>, r.error_msg, accepted)>>,
                     !.pc = "sleep"]
    /\ Len(collector.reports) < 2
    /\ UNCHANGED <<reloader_cfg, ruleObject, graph, call, pvars>>

\* _run_api_mode: the first report_result of the cycle
ReportResult ==
    /\ collector.pc = "report"
    /\ LET r == collector.result[1]
       IN  \E accepted \in BOOLEAN :
             IF r.success /\ r.log_path # <<>>
             THEN collector' = [collector EXCEPT
                     !.reports = <<Report("success", r.log_path, "", accepted)>>,
                     !.pc = IF accepted THEN "sleep" ELSE "upload failed"]
             ELSE collector' = [collector EXCEPT
                     !.reports = <<Report("failed", <<>>, r.error_msg, accepted)>>,
                     !.pc = "sleep"]
    /\ UNCHANGED <<reloader_cfg, ruleObject, graph, call, pvars>>

\* _run_api_mode: if not upload_success, report the failure without the file
ReportUploadFailure ==
    /\ collector.pc = "upload failed"
    /\ \E accepted \in BOOLEAN :
          collector' = [collector EXCEPT
              !.reports = Append(@, Report("failed", <<>>,
                              "Log collection succeeded but upload failed", accepted)),
              !.pc = "sleep"]
    /\ UNCHANGED <<reloader_cfg, ruleObject, graph, call, pvars>>

\* _run_api_mode: time.sleep(API_POLL_INTERVAL), then the next cycle
Sleep ==
    /\ collector.pc = "sleep"
    /\ collector' = [collector EXCEPT
          !.pc = "poll", !.task = <<>>, !.outcome = "none", !.invoked = {},
          !.result = <<>>, !.reports = <<>>]
    /\ UNCHANGED <<reloader_cfg, ruleObject, graph, call, pvars>>

CollectorNext ==
    \/ CheckForTasks
    \/ StartCollection
    \/ CollectLogs
    \/ CollectionThreadEnds
    \/ ReportResult
    \/ ReportUploadFailure
    \/ Sleep

CollectorSpec == CollectorInit /\ [][CollectorNext]_vars

\* ------------------------------------------------------------------------
\* The graph editor driven call by call (EditSpec)
\* ------------------------------------------------------------------------

\* the editor is driven on its own: the process has not begun and its
\* cluster does not change
EditInit ==
    /\ reloader_cfg \in ReloaderConfigs
    /\ ruleObject \in RuleObjects
    /\ pods = [p \in DaemonPods |-> "Absent"]
    /\ ProcessAtStart
    /\ graph = set_logs_config(BaseConfig)
    /\ call = NoCall

\* one call of the graph editor: op applied to the graph with argument eps
Called(op, eps, result) ==
    /\ graph' = result
    /\ call' = [op |-> op, eps |-> eps, rule |-> ruleObject,
                warned |-> IF op = "set_custom_metrics_scrape_config"
                           THEN clamp_warnings(eps) ELSE {}]
    /\ UNCHANGED <<collector, reloader_cfg, ruleObject, pvars>>

CallSetDcgm ==
    \E ep \in DcgmEndpoints :
        Called("set_dcgm_exporter_scrape_config", ep,
               set_dcgm_exporter_scrape_config(graph, ep))

CallRemoveDcgm ==
    Called("remove_dcgm_exporter_scrape_config", <<>>,
           remove_dcgm_exporter_scrape_config(graph))

CallSetKsm ==
    \E ep \in KsmEndpoints :
        Called("set_kube_state_metrics_scrape_config", ep,
               set_kube_state_metrics_scrape_config(graph, ep))

CallRemoveKsm ==
    Called("remove_kube_state_metrics_scrape_config", <<>>,
           remove_kube_state_metrics_scrape_config(graph))

\* the callers of set_scrape test amd_manager.enabled first
CallSetAmd ==
    /\ reloader_cfg.amd_enabled
    /\ \E ep \in AmdEndpoints :
          Called("set_scrape", ep,
                 set_scrape(graph, ep, NODE_METRICS_VECTOR_TRANSFORM_NAME))

CallRemoveAmd ==
    Called("remove_scrape", <<>>,
           remove_scrape(graph, NODE_METRICS_VECTOR_TRANSFORM_NAME))

CallSetCustom ==
    \E eps \in EndpointLists :
        Called("set_custom_metrics_scrape_config", eps,
               set_custom_metrics_scrape_config(graph, eps))

CallRemoveCustom ==
    \E ep \in CustomEndpoints :
        Called("remove_custom_metrics_scrape_config", <<ep>>,
               remove_custom_metrics_scrape_config(graph, ep))

\* the rule object is edited in the cluster between two calls
RuleObjectChanged ==
    /\ \E r \in RuleObjects \ {ruleObject} : ruleObject' = r
    /\ UNCHANGED <<collector, reloader_cfg, graph, call, pvars>>

EditNext ==
    \/ CallSetDcgm
    \/ CallRemoveDcgm
    \/ CallSetKsm
    \/ CallRemoveKsm
    \/ CallSetAmd
    \/ CallRemoveAmd
    \/ CallSetCustom
    \/ CallRemoveCustom
    \/ RuleObjectChanged

EditSpec == EditInit /\ [][EditNext]_vars

\* ------------------------------------------------------------------------
\* The policy compiler driven over the policies of one deployment (PolicySpec)
\* ------------------------------------------------------------------------

\* the allowlist / droplist values of a policy
MetricLists == {<<>>, <<"m1">>, <<"m2", "m3">>}

\* the scrape_interval_secs values of a policy: absent, below the minimum,
\* the minimum, the default, and two larger ones
IntervalOverrides == {<<>>, <<3>>, <<5>>, <<30>>, <<45>>, <<90>>}

\* what config.get(deployment_name, {}) can return for deployment "w"
Policies ==
    [allowlist : MetricLists, droplist : MetricLists,
     dropLabels : {<<>>, <<"l2", "l1">>},
     addLabels : {<<>>, << <<"team", "w">>, <<"l1", "x">> >>},
     scrape_interval_secs : IntervalOverrides]

PolicyRuleObjects ==
    {NoRules, Deleted} \cup {[readable |-> TRUE, rules |-> (DEPLOYMENT_W :> p)] : p \in Policies}

PolicyPods == {"cm_w", "cm_wdot", "cm_svc"}

PolicyEndpoints == {get_custom_metrics_endpoint_cfg(PodTable[p]) : p \in PolicyPods}

PolicyEndpointLists ==
    UNION {{eps \in [1..n -> PolicyEndpoints] :
                \A i, j \in 1..n : eps[i] = eps[j] => i = j} : n \in 1..MaxEps}

\* the rule object holds one policy for the whole run
PolicyInit ==
    /\ reloader_cfg = AllEnabled
    /\ ruleObject \in PolicyRuleObjects
    /\ pods = [p \in DaemonPods |-> "Absent"]
    /\ ProcessAtStart
    /\ graph = set_logs_config(BaseConfig)
    /\ call = NoCall

CompileSetCustom ==
    \E eps \in PolicyEndpointLists :
        Called("set_custom_metrics_scrape_config", eps,
               set_custom_metrics_scrape_config(graph, eps))

CompileRemoveCustom ==
    \E ep \in PolicyEndpoints :
        Called("remove_custom_metrics_scrape_config", <<ep>>,
               remove_custom_metrics_scrape_config(graph, ep))

PolicyNext ==
    \/ CompileSetCustom
    \/ CompileRemoveCustom

PolicySpec == PolicyInit /\ [][PolicyNext]_vars

\* ------------------------------------------------------------------------
\* Properties of the graph editor (checked under EditSpec)
\* ------------------------------------------------------------------------

\* sorted(s) for a list s of str values (duplicates are kept)
RECURSIVE sorted_list(_)
sorted_list(s) ==
    IF s = <<>> THEN <<>>
    ELSE LET i == CHOOSE j \in 1..Len(s) : \A k \in 1..Len(s) : ~StrLess(s[k], s[j])
         IN  <<s[i]>> \o sorted_list(SubSeq(s, 1, i - 1) \o SubSeq(s, i + 1, Len(s)))

\* the graph with every inputs list in canonical (sorted) order
CanonicalSort(g) ==
    [g EXCEPT
        !.transforms = [k \in DOMAIN @ |-> [@[k] EXCEPT !.inputs = sorted_list(@)]],
        !.sinks = [k \in DOMAIN @ |-> [@[k] EXCEPT !.inputs = sorted_list(@)]]]

SourceId(pod_name) == sanitize_name(pod_name) \o SCRAPE_SUFFIX

TransformId(pod_name) == sanitize_name(pod_name) \o TRANSFORM_SUFFIX

SinkId(pod_name) == sanitize_name(pod_name) \o SINK_SUFFIX

TriadIds(pod_name) == {SourceId(pod_name), TransformId(pod_name), SinkId(pod_name)}

NodeInputs(g) == g.transforms[NODE_METRICS_VECTOR_TRANSFORM_NAME].inputs

\* the last call applied once more to g
Repeat(g) ==
    CASE call.op = "set_dcgm_exporter_scrape_config"
            -> set_dcgm_exporter_scrape_config(g, call.eps)
      [] call.op = "set_kube_state_metrics_scrape_config"
            -> set_kube_state_metrics_scrape_config(g, call.eps)
      [] call.op = "set_scrape"
            -> set_scrape(g, call.eps, NODE_METRICS_VECTOR_TRANSFORM_NAME)
      [] call.op = "set_custom_metrics_scrape_config"
            -> set_custom_metrics_scrape_config(g, call.eps)
      [] OTHER -> g

SetOps ==
    {"set_dcgm_exporter_scrape_config", "set_kube_state_metrics_scrape_config",
     "set_scrape", "set_custom_metrics_scrape_config"}

\* C4: idempotent add.  Whatever graph a set_* call of any exporter kind
\* was applied to and whatever its descriptor, applying the same call a
\* second time under the same policy gives, after sorting the inputs lists,
\* the graph the first application gave: no node or inputs entry is added.
C4_IdempotentAdd ==
    (call.op \in SetOps /\ call.rule = ruleObject)
        => CanonicalSort(Repeat(graph)) = CanonicalSort(graph)

\* C4 witness: set_custom_metrics_scrape_config has just created the triads
\* of two pods in a graph that also holds the dcgm and amd edges.
C4_Witness ==
    /\ call.op = "set_custom_metrics_scrape_config"
    /\ call.rule = ruleObject
    /\ Len(call.eps) = 2
    /\ \A i \in 1..2 : SourceId(call.eps[i].pod_name) \in DOMAIN graph.sources
    /\ DCGM_EXPORTER_SOURCE_NAME \in Range(NodeInputs(graph))
    /\ AMD_FILTER_TRANSFORM_NAME \in Range(NodeInputs(graph))

DcgmAbsent(g) ==
    /\ DCGM_EXPORTER_SOURCE_NAME \notin DOMAIN g.sources
    /\ DCGM_EXPORTER_SOURCE_NAME \notin Range(NodeInputs(g))

AmdAbsent(g) ==
    /\ AMD_EXPORTER_SOURCE_NAME \notin DOMAIN g.sources
    /\ AMD_FILTER_TRANSFORM_NAME \notin DOMAIN g.transforms
    /\ AMD_FILTER_TRANSFORM_NAME \notin Range(NodeInputs(g))

KsmAbsent(g) ==
    /\ KUBE_STATE_METRICS_SOURCE_NAME \notin DOMAIN g.sources
    /\ KUBE_STATE_METRICS_TRANSFORM_NAME \notin DOMAIN g.transforms
    /\ KUBE_STATE_METRICS_SINK_NAME \notin DOMAIN g.sinks

CustomAbsent(g, pod_name) ==
    /\ SourceId(pod_name) \notin DOMAIN g.sources
    /\ TransformId(pod_name) \notin DOMAIN g.transforms
    /\ SinkId(pod_name) \notin DOMAIN g.sinks

\* C5: idempotent remove.  In every reachable graph from which a kind's
\* nodes and edge are absent, remove_* of that kind leaves the graph exactly
\* as it was, the order of every inputs list included.
C5_IdempotentRemove ==
    /\ DcgmAbsent(graph) => remove_dcgm_exporter_scrape_config(graph) = graph
    /\ AmdAbsent(graph) => remove_scrape(graph, NODE_METRICS_VECTOR_TRANSFORM_NAME) = graph
    /\ KsmAbsent(graph) => remove_kube_state_metrics_scrape_config(graph) = graph
    /\ \A ep \in CustomEndpoints :
          CustomAbsent(graph, ep.pod_name)
            => remove_custom_metrics_scrape_config(graph, ep) = graph

\* the source ids of the custom-metrics endpoints that are set in g
CustomSourceIds(g) ==
    {SourceId(ep.pod_name) : ep \in CustomEndpoints} \cap DOMAIN g.sources

\* C8: after set_custom_metrics_scrape_config the graph routes the custom
\* sources through the aggregate transform enrich_custom_metrics, whose
\* inputs are the sorted source ids, into the aggregate sink
\* cms_gateway_custom_metrics; after remove_custom_metrics_scrape_config the
\* transform's inputs are the remaining source ids and the sink exists
\* exactly while an input remains.
C8_AggregateCustomMetricsRouting ==
    /\ ( /\ call.op = "set_custom_metrics_scrape_config"
         /\ call.eps # <<>>
         /\ reloader_cfg.custom_metrics_enabled )
       => /\ CUSTOM_METRICS_VECTOR_TRANSFORM_NAME \in DOMAIN graph.transforms
          /\ graph.transforms[CUSTOM_METRICS_VECTOR_TRANSFORM_NAME].inputs
                = sorted(CustomSourceIds(graph))
          /\ CUSTOM_METRICS_SINK_NAME \in DOMAIN graph.sinks
    /\ ( /\ call.op = "remove_custom_metrics_scrape_config"
         /\ CUSTOM_METRICS_VECTOR_TRANSFORM_NAME \in DOMAIN graph.transforms )
       => /\ graph.transforms[CUSTOM_METRICS_VECTOR_TRANSFORM_NAME].inputs
                = sorted(CustomSourceIds(graph))
          /\ (CUSTOM_METRICS_SINK_NAME \in DOMAIN graph.sinks)
                <=> (CustomSourceIds(graph) # {})

\* the triad of the endpoint is in g and carries this endpoint's content
Present(g, ep) ==
    /\ SourceId(ep.pod_name) \in DOMAIN g.sources
    /\ g.sources[SourceId(ep.pod_name)].endpoints = <<ep.url>>
    /\ TransformId(ep.pod_name) \in DOMAIN g.transforms
    /\ g.transforms[TransformId(ep.pod_name)].inputs = <<SourceId(ep.pod_name)>>
    /\ LET body == g.transforms[TransformId(ep.pod_name)].source.text
       IN  body[Len(body)] = [stmt |-> "set", label |-> "pod_name", value |-> ep.pod_name]
    /\ SinkId(ep.pod_name) \in DOMAIN g.sinks
    /\ g.sinks[SinkId(ep.pod_name)].inputs = <<TransformId(ep.pod_name)>>

\* every node of section d other than id is in section e, unchanged, and id is not
DeletedExactly(d, e, id) ==
    /\ id \in DOMAIN d
    /\ DOMAIN e = (DOMAIN d) \ {id}
    /\ \A k \in DOMAIN e : e[k] = d[k]

RemovedTriadOnly(g, h, pod_name) ==
    /\ DeletedExactly(g.sources, h.sources, SourceId(pod_name))
    /\ DeletedExactly(g.transforms, h.transforms, TransformId(pod_name))
    /\ DeletedExactly(g.sinks, h.sinks, SinkId(pod_name))

\* the sinks built from custom_metrics_sink_config
CustomSinks(g) ==
    {k \in DOMAIN g.sinks : g.sinks[k].endpoint = custom_metrics_sink_config.endpoint}

FixedKindIds ==
    {DCGM_EXPORTER_SOURCE_NAME, KUBE_STATE_METRICS_SOURCE_NAME,
     KUBE_STATE_METRICS_TRANSFORM_NAME, KUBE_STATE_METRICS_SINK_NAME,
     AMD_EXPORTER_SOURCE_NAME, AMD_FILTER_TRANSFORM_NAME}

BaselineIds ==
    (DOMAIN BaseConfig.sources) \cup (DOMAIN BaseConfig.transforms) \cup (DOMAIN BaseConfig.sinks)

LogIds ==
    {JOURNALD_LOGS_SOURCE_NAME, DMESG_LOGS_SOURCE_NAME, ENRICH_LOGS_TRANSFORM_NAME,
     CRUSOE_INGEST_SINK_NAME}

\* C10: node ids are collision-free.  The ids that
\* set_custom_metrics_scrape_config has just written for a pod name are not
\* the ids of any other custom-metrics pod name, of a fixed-kind node or of
\* a baseline node.
C10_NodeIdsCollisionFree ==
    ( /\ call.op = "set_custom_metrics_scrape_config"
      /\ reloader_cfg.custom_metrics_enabled )
    => \A i \in 1..Len(call.eps) :
          /\ \A other \in CustomEndpoints :
                other.pod_name # call.eps[i].pod_name
                  => TriadIds(other.pod_name) \cap TriadIds(call.eps[i].pod_name) = {}
          /\ TriadIds(call.eps[i].pod_name) \cap (FixedKindIds \cup BaselineIds \cup LogIds) = {}

\* the transform that feeds the sink of a kind, with that sink: the
\* kube-state-metrics pair, the node-level pair and the pair of each
\* custom-metrics pod
TransformAndSink ==
    {<<KUBE_STATE_METRICS_TRANSFORM_NAME, KUBE_STATE_METRICS_SINK_NAME>>,
     <<NODE_METRICS_VECTOR_TRANSFORM_NAME, NODE_METRICS_SINK_NAME>>}
    \cup {<<TransformId(ep.pod_name), SinkId(ep.pod_name)>> : ep \in CustomEndpoints}

\* C7: sink lifecycle.  In every reachable graph a sink exists only while
\* every transform feeding it exists with a non-empty inputs list, and a
\* kind's transform that exists with a non-empty inputs list has its sink,
\* which takes it as input.
C7_SinkLifecycle ==
    /\ \A k \in DOMAIN graph.sinks : \A i \in 1..Len(graph.sinks[k].inputs) :
          /\ graph.sinks[k].inputs[i] \in DOMAIN graph.transforms
          /\ graph.transforms[graph.sinks[k].inputs[i]].inputs # <<>>
    /\ \A ts \in TransformAndSink :
          (ts[1] \in DOMAIN graph.transforms /\ graph.transforms[ts[1]].inputs # <<>>)
            => /\ ts[2] \in DOMAIN graph.sinks
               /\ ts[1] \in Range(graph.sinks[ts[2]].inputs)

\* ------------------------------------------------------------------------
\* Properties of the reloader process (checked under Spec)
\* ------------------------------------------------------------------------

\* bootstrap is done, every delivered event was handled (none was skipped
\* because its handler raised) and no handler is in progress
Quiescent ==
    /\ pcMain = "watching"
    /\ podStream = <<>>
    /\ cmStream = <<>>
    /\ podPc = "wait"
    /\ cmPc = "wait"
    /\ faults = <<>>

HasTriad(g, pod_name) ==
    /\ SourceId(pod_name) \in DOMAIN g.sources
    /\ TransformId(pod_name) \in DOMAIN g.transforms
    /\ SinkId(pod_name) \in DOMAIN g.sinks

RunningOfKind(kind) ==
    \E p \in DOMAIN pods : kind_of(PodTable[p]) = kind /\ pods[p] = "Running"

\* C1: at quiescence the persisted graph is consistent with the node.  It
\* holds the triad of a custom-metrics pod iff that pod is Running, and the
\* source of a fixed kind iff an enabled exporter pod of the kind is Running.
C1_QuiescentGraphConsistent ==
    Quiescent =>
        /\ \A p \in DOMAIN pods :
              kind_of(PodTable[p]) = "custom"
                => (HasTriad(file, PodTable[p].name)
                      <=> (pods[p] = "Running" /\ reloader_cfg.custom_metrics_enabled))
        /\ (DCGM_EXPORTER_SOURCE_NAME \in DOMAIN file.sources)
              <=> (RunningOfKind("dcgm") /\ reloader_cfg.dcgm_metrics_enabled)
        /\ (KUBE_STATE_METRICS_SOURCE_NAME \in DOMAIN file.sources)
              <=> (RunningOfKind("ksm") /\ reloader_cfg.ksm_enabled)
        /\ (AMD_EXPORTER_SOURCE_NAME \in DOMAIN file.sources)
              <=> (RunningOfKind("amd") /\ reloader_cfg.amd_enabled)

\* C2: single writer.  The pod-event handler and the rule-object handler
\* are never both between their load of the persisted graph and their save.
C2_SingleWriter ==
    ~(podPc = "loaded" /\ cmPc \in {"loaded", "listed"})

\* C3: no lost update.  Every save writes the handler's own edit applied to
\* the graph that is persisted at that moment, so that the graph written
\* last still holds what the other loop's handler has persisted since this
\* handler loaded.
C3_NoLostUpdate ==
    [][ /\ (cmPc = "listed" /\ cmPc' # "listed")
            => file' = save_yaml(refresh_edit(load_yaml_config(file), cmEps))
        /\ (podPc = "loaded" /\ podPc' # "loaded" /\ kind_of(PodTable[podEvent.pod]) # "none")
            => file' = save_yaml(with_node_metrics_source(
                          pod_event_edit(load_yaml_config(file), podEvent))) ]_vars

\* C6: no orphan edges.  In every persisted graph each id in the inputs of
\* a transform or sink is the id of a source or transform of that graph, or
\* a baseline id.
NoOrphanEdges(g) ==
    /\ \A k \in DOMAIN g.transforms : \A i \in 1..Len(g.transforms[k].inputs) :
          g.transforms[k].inputs[i]
            \in (DOMAIN g.sources) \cup (DOMAIN g.transforms) \cup BaselineIds
    /\ \A k \in DOMAIN g.sinks : \A i \in 1..Len(g.sinks[k].inputs) :
          g.sinks[k].inputs[i]
            \in (DOMAIN g.sources) \cup (DOMAIN g.transforms) \cup BaselineIds

C6_NoOrphanEdges ==
    pcMain # "bootstrap" => NoOrphanEdges(file)

\* ------------------------------------------------------------------------
\* Ids of the custom-metrics triad (checked under EditSpec)
\* ------------------------------------------------------------------------

\* the names and expected results of test_sanitize_name_replaces_invalid_chars
TEST_NAME_WEIRD ==
    <<"p","o","d",".","n","a","m","e","/","w","i","t","h",":","w","e","i","r","d","-"," ","c","h","a","r","s">>

TEST_SANITIZED_WEIRD ==
    <<"p","o","d","_","n","a","m","e","_","w","i","t","h","_","w","e","i","r","d","_","_","c","h","a","r","s">>

TEST_NAME_ABC ==
    <<"A","B","C","1","2","3","_","-">>

TEST_SANITIZED_ABC ==
    <<"A","B","C","1","2","3","_","_">>

\* id is name with every character outside [a-zA-Z0-9_] replaced by "_",
\* followed by suffix
IsIdOf(id, name, suffix) ==
    /\ Len(id) = Len(name) + Len(suffix)
    /\ \A i \in 1..Len(name) :
          id[i] = (IF name[i] \in IdentChars THEN name[i] ELSE "_")
    /\ \A i \in 1..Len(suffix) : id[Len(name) + i] = suffix[i]

\* the graph holds a source, a transform and a sink under the ids of name
TriadAddressed(g, name) ==
    /\ \E k \in DOMAIN g.sources : IsIdOf(k, name, SCRAPE_SUFFIX)
    /\ \E k \in DOMAIN g.transforms : IsIdOf(k, name, TRANSFORM_SUFFIX)
    /\ \E k \in DOMAIN g.sinks : IsIdOf(k, name, SINK_SUFFIX)

TriadUnaddressed(g, name) ==
    /\ \A k \in DOMAIN g.sources : ~IsIdOf(k, name, SCRAPE_SUFFIX)
    /\ \A k \in DOMAIN g.transforms : ~IsIdOf(k, name, TRANSFORM_SUFFIX)
    /\ \A k \in DOMAIN g.sinks : ~IsIdOf(k, name, SINK_SUFFIX)

\* C11: deterministic ids.  The ids of a custom-metrics pod depend on its
\* name alone: each character outside [a-zA-Z0-9_] becomes "_", the length
\* is kept and _scrape / _transform / _sink is appended.  Whatever the
\* graph, the rule object and the calls made before, a set call leaves a
\* node under each of the three ids of every pod it was given and a remove
\* call leaves none of the three ids of its pod.
C11_DeterministicIds ==
    /\ sanitize_name(TEST_NAME_WEIRD) = TEST_SANITIZED_WEIRD
    /\ sanitize_name(TEST_NAME_ABC) = TEST_SANITIZED_ABC
    /\ (call.op = "set_custom_metrics_scrape_config" /\ reloader_cfg.custom_metrics_enabled)
          => \A i \in 1..Len(call.eps) : TriadAddressed(graph, call.eps[i].pod_name)
    /\ call.op = "remove_custom_metrics_scrape_config"
          => TriadUnaddressed(graph, call.eps[1].pod_name)

\* C11 witness: the triad of pod "w.a-b" has been set under w_a_b_* after
\* the rule object changed and other calls were made
C11_Witness ==
    /\ call.op = "set_custom_metrics_scrape_config"
    /\ reloader_cfg.custom_metrics_enabled
    /\ Len(call.eps) = 1
    /\ call.eps[1].pod_name = NAME_W_DOT_A_B
    /\ ruleObject = RulesA
    /\ SourceId(NAME_W_A_B) \in DOMAIN graph.sources
    /\ KUBE_STATE_METRICS_TRANSFORM_NAME \in DOMAIN graph.transforms

\* ------------------------------------------------------------------------
\* Rendering of the persisted graph (checked under Spec)
\* ------------------------------------------------------------------------

InputsSorted(g) ==
    /\ \A k \in DOMAIN g.transforms : g.transforms[k].inputs = sorted_list(g.transforms[k].inputs)
    /\ \A k \in DOMAIN g.sinks : g.sinks[k].inputs = sorted_list(g.sinks[k].inputs)

\* C12: in every persisted graph each inputs list is in lexicographic
\* order, which is what makes the persisted graph of a given set of Running
\* pods and a given policy the same bytes whatever the order in which the
\* pods' events were handled.
C12_InputsInLexicographicOrder ==
    pcMain # "bootstrap" => InputsSorted(file)

\* ------------------------------------------------------------------------
\* Inputs lists as sets (checked under EditSpec)
\* ------------------------------------------------------------------------

NoDuplicate(s) == \A i, j \in 1..Len(s) : s[i] = s[j] => i = j

\* C13: no inputs list ever holds a duplicate.  In every reachable graph
\* every transform and sink names each input once; the node-level transform
\* names dcgm_exporter_scrape at most once and amd_allowed_filter at most
\* once however often set_* has been applied.
C13_NoDuplicateInputs ==
    /\ \A k \in DOMAIN graph.transforms : NoDuplicate(graph.transforms[k].inputs)
    /\ \A k \in DOMAIN graph.sinks : NoDuplicate(graph.sinks[k].inputs)

\* C13 witness: set_dcgm_exporter_scrape_config was applied to a graph
\* whose node-level transform already named dcgm_exporter_scrape (amd was
\* appended after it and nothing has sorted the list since)
C13_Witness ==
    /\ call.op = "set_dcgm_exporter_scrape_config"
    /\ call.eps # <<>>
    /\ reloader_cfg.dcgm_metrics_enabled
    /\ NodeInputs(graph) =
          <<HOST_METRICS_SOURCE_NAME, DCGM_EXPORTER_SOURCE_NAME, AMD_FILTER_TRANSFORM_NAME>>

\* ------------------------------------------------------------------------
\* The rule-object loop (checked under Spec)
\* ------------------------------------------------------------------------

\* C14: refresh equals bootstrap.  When the handling of an added or
\* modified rule-object event ends with its save, the persisted graph holds
\* the triad of a custom-metrics pod iff the pod is Running on the node, and
\* it is the graph a bootstrap would write for the pods that are Running
\* and the rule object that is in the cluster.
C14_RefreshEqualsBootstrap ==
    [][ (cmPc = "listed" /\ cmPc' # "listed")
          => /\ \A p \in DOMAIN pods :
                   kind_of(PodTable[p]) = "custom"
                     => (HasTriad(file', PodTable[p].name)
                           <=> (pods[p] = "Running" /\ reloader_cfg.custom_metrics_enabled))
             /\ \E listing \in Listings(RunningPods) :
                   file' = save_yaml(bootstrap_config(listing)) ]_vars

\* ------------------------------------------------------------------------
\* Replacement of a fixed-kind exporter pod (checked under Spec)
\* ------------------------------------------------------------------------

KindSource(kind) ==
    CASE kind = "dcgm" -> DCGM_EXPORTER_SOURCE_NAME
      [] kind = "ksm" -> KUBE_STATE_METRICS_SOURCE_NAME
      [] kind = "amd" -> AMD_EXPORTER_SOURCE_NAME

KindEndpoint(kind, pod_ip) ==
    CASE kind = "dcgm" -> get_dcgm_exporter_scrape_endpoint(pod_ip)
      [] kind = "ksm" -> get_kube_state_metrics_scrape_endpoint(pod_ip)
      [] kind = "amd" -> build_endpoint(pod_ip)

KindEnabled(kind) ==
    CASE kind = "dcgm" -> reloader_cfg.dcgm_metrics_enabled
      [] kind = "ksm" -> reloader_cfg.ksm_enabled
      [] kind = "amd" -> reloader_cfg.amd_enabled

\* the pod-event loop has handled every delivered event and the
\* rule-object loop has written nothing since bootstrap
PodLoopSettled ==
    /\ pcMain = "watching"
    /\ podStream = <<>>
    /\ podPc = "wait"
    /\ faults = <<>>
    /\ cmEvents = 0
    /\ cmStream # <<>>

\* C15: order tolerance of pod events.  When a fixed-kind exporter pod is
\* replaced, the persisted graph after the events of both pods are handled
\* holds that kind's source pointing at the pod that is Running, whichever
\* event was handled first; and the handling of a Terminating event of one
\* pod never removes the source while another pod of the kind is Running.
C15_ReplacementOrderTolerant ==
    /\ [](PodLoopSettled =>
            \A p, q \in DOMAIN pods :
               LET kind == kind_of(PodTable[p])
               IN  (/\ p # q
                    /\ kind \in {"dcgm", "ksm", "amd"}
                    /\ kind_of(PodTable[q]) = kind
                    /\ KindEnabled(kind)
                    /\ pods[p] = "Running"
                    /\ pods[q] = "Terminating")
                   => /\ KindSource(kind) \in DOMAIN file.sources
                      /\ file.sources[KindSource(kind)].endpoints
                            = <<KindEndpoint(kind, PodTable[p].pod_ip)>>)
    /\ [][ (/\ podPc = "loaded"
            /\ podPc' # "loaded"
            /\ podEvent.phase = "Terminating"
            /\ kind_of(PodTable[podEvent.pod]) \in {"dcgm", "ksm", "amd"}
            /\ \E q \in DOMAIN pods \ {podEvent.pod} :
                  /\ kind_of(PodTable[q]) = kind_of(PodTable[podEvent.pod])
                  /\ pods[q] = "Running"
            /\ KindSource(kind_of(PodTable[podEvent.pod])) \in DOMAIN file.sources)
           => KindSource(kind_of(PodTable[podEvent.pod])) \in DOMAIN file'.sources ]_vars

\* C16: a DELETED event of the rule object.  Its handling starts no refresh
\* and writes nothing to the persisted graph, and the rule-object cache
\* holds after it the content it held before.
C16_DeletedKeepsGraphAndCache ==
    [][ (/\ cmStream # <<>>
         /\ cmStream' = Tail(cmStream)
         /\ Head(cmStream).type = "DELETED")
          => /\ file' = file
             /\ cmPc' \in {"wait", "done"}
             /\ cmCfg' = cmCfg
             /\ cache' = cache
             /\ cache # <<>> ]_vars

\* C16 witness: the rule object with the policy of deployment "w" was
\* deleted, the DELETED event has been handled and the cache still holds
\* the policy
C16_Witness ==
    /\ ruleObject = Deleted
    /\ cmStream = <<>>
    /\ cmPc = "wait"
    /\ cmEvents > 0
    /\ cache = <<RulesA>>

\* ------------------------------------------------------------------------
\* Handlers that raise (checked under Spec)
\* ------------------------------------------------------------------------

\* C20: an event whose handler raises is skipped.  The step in which a
\* handler raises writes nothing, takes no other event from the stream and
\* leaves its loop waiting for the next event unless shutdown was
\* requested; a loop is finished only after shutdown was requested.
C20_FailingEventSkipped ==
    /\ []((podPc = "done" \/ cmPc = "done") => ~running)
    /\ [][ faults' # faults
             => /\ file' = file
                /\ cmStream' = cmStream
                /\ Len(podStream') >= Len(podStream) - 1
                /\ (podPc' # podPc => podPc' = (IF running THEN "wait" ELSE "done"))
                /\ (cmPc' # cmPc => cmPc' = (IF running THEN "wait" ELSE "done"))
                /\ (running => podPc' = "wait" \/ cmPc' = "wait") ]_vars

\* C20 witness: the handler of a pod event raised, and the pod loop is
\* now handling the next event of its stream
C20_Witness ==
    /\ faults = <<"pod">>
    /\ running
    /\ podPc = "loaded"

\* ------------------------------------------------------------------------
\* Properties of the policy compiler (checked under PolicySpec)
\* ------------------------------------------------------------------------

\* the transforms written by set_custom_metrics_scrape_config
CustomTransforms(g) ==
    {n \in DOMAIN g.transforms : "drop_on_abort" \in DOMAIN g.transforms[n]}

\* the lines of the compiled expression of transform n
CompiledLines(g, n) == g.transforms[n].source.text

\* the pod a compiled expression was built for: its .tags.pod_name line
PodNameOf(lines) ==
    lines[CHOOSE i \in 1..Len(lines) :
            lines[i].stmt = "set" /\ lines[i].label = "pod_name"].value

\* the policy in force for the deployment of that pod
PolicyOfLines(lines) == get_deployment_metrics_config(deployment_name_of(PodNameOf(lines)))

\* allowed_metrics = [names] followed by if !includes(allowed_metrics, .name) { abort }
HasAllowGuard(lines, names) ==
    \E i \in 1..(Len(lines) - 1) :
        /\ lines[i] = [stmt |-> "allowed_metrics", names |-> names]
        /\ lines[i + 1] = [stmt |-> "abort_unless_allowed"]

\* any line of the drop guard
HasDropGuard(lines) ==
    \E i \in 1..Len(lines) : lines[i].stmt \in {"dropped_metrics", "abort_if_dropped"}

\* C17: policy precedence.  For every policy whose allowlist and droplist are
\* both non-empty the compiled expression contains the allow guard over the
\* allowlist and no drop guard; a drop guard appears only when the allowlist
\* is empty and the droplist is not.
C17_PolicyPrecedence ==
    \A n \in CustomTransforms(graph) :
        LET lines == CompiledLines(graph, n)
            policy == PolicyOfLines(lines)
        IN  /\ (policy.allowlist # <<>> /\ policy.droplist # <<>>)
                => (HasAllowGuard(lines, policy.allowlist) /\ ~HasDropGuard(lines))
            /\ HasDropGuard(lines)
                => (policy.allowlist = <<>> /\ policy.droplist # <<>>)

\* a policy with both lists has been compiled for pod w-a-b
C17_Witness ==
    /\ call.op = "set_custom_metrics_scrape_config"
    /\ \E n \in CustomTransforms(graph) :
          LET lines == CompiledLines(graph, n)
          IN  /\ PodNameOf(lines) = NAME_W_A_B
              /\ PolicyOfLines(lines).allowlist = <<"m2", "m3">>
              /\ PolicyOfLines(lines).droplist = <<"m1">>
              /\ HasAllowGuard(lines, <<"m2", "m3">>)

\* the source that custom transform n takes its metrics from
ScrapeSourceOf(g, n) == g.sources[g.transforms[n].inputs[1]]

\* C18: every custom-metrics source has scrape_interval_secs >= 5 and
\* scrape_timeout_secs = floor(scrape_interval_secs * 0.7); with no override
\* the interval is the default and the timeout follows from it, and a
\* configured interval below 5 yields interval 5 and timeout 3.
C18_IntervalAndTimeout ==
    \A n \in CustomTransforms(graph) :
        LET src == ScrapeSourceOf(graph, n)
            override == PolicyOfLines(CompiledLines(graph, n)).scrape_interval_secs
        IN  /\ src.scrape_interval_secs >= SCRAPE_INTERVAL_MIN_THRESHOLD
            /\ src.scrape_timeout_secs = (src.scrape_interval_secs * 7) \div 10
            /\ override = <<>>
                => src.scrape_interval_secs = CUSTOM_METRICS_DEFAULT_SCRAPE_INTERVAL
            /\ (override # <<>> /\ override[1] < SCRAPE_INTERVAL_MIN_THRESHOLD)
                => (src.scrape_interval_secs = 5 /\ src.scrape_timeout_secs = 3)

\* the pod a descriptor was built from
PodOfDescriptor(d) == PodTable[CHOOSE p \in PolicyPods : PodTable[p].name = d.pod_name]

\* the scrape interval a pod declares: its scrape-interval annotation when
\* present, otherwise the default, clamped up to the minimum
DeclaredInterval(pod) ==
    LET declared == IF CUSTOM_METRICS_SCRAPE_INTERVAL_ANNOTATION \in DOMAIN pod.annotations
                    THEN int(pod.annotations[CUSTOM_METRICS_SCRAPE_INTERVAL_ANNOTATION])
                    ELSE CUSTOM_METRICS_DEFAULT_SCRAPE_INTERVAL
    IN  IF declared > SCRAPE_INTERVAL_MIN_THRESHOLD THEN declared
        ELSE SCRAPE_INTERVAL_MIN_THRESHOLD

\* port and path of a descriptor come from the pod's annotations and fall
\* back to the configured defaults
PortAndPathFromAnnotations(d, pod) ==
    /\ d.url.port = (IF CUSTOM_METRICS_PORT_ANNOTATION \in DOMAIN pod.annotations
                     THEN int(pod.annotations[CUSTOM_METRICS_PORT_ANNOTATION])
                     ELSE CUSTOM_CONFIG_PORT)
    /\ d.url.path = (IF CUSTOM_METRICS_PATH_ANNOTATION \in DOMAIN pod.annotations
                     THEN pod.annotations[CUSTOM_METRICS_PATH_ANNOTATION]
                     ELSE "/metrics")

\* C19: the descriptor get_custom_metrics_endpoint_cfg builds for a
\* custom-metrics pod carries a scrape interval (the pod's scrape-interval
\* annotation when present, otherwise 30, clamped up to 5) and the timeout
\* int(interval * 0.7); its port and path come from the pod's annotations and
\* fall back to the configured defaults.
C19_DescriptorCarriesInterval ==
    \A i \in 1..Len(call.eps) :
        LET d == call.eps[i]
            pod == PodOfDescriptor(d)
        IN  /\ PortAndPathFromAnnotations(d, pod)
            /\ "scrape_interval_secs" \in DOMAIN d
            /\ "scrape_timeout_secs" \in DOMAIN d
            /\ d.scrape_interval_secs = DeclaredInterval(pod)
            /\ d.scrape_timeout_secs = scrape_timeout(DeclaredInterval(pod))

\* ------------------------------------------------------------------------
\* Properties of the process from construction to exit (FaultSpec, FairSpec)
\* ------------------------------------------------------------------------

\* C21: after a termination signal both watch loops eventually stop and
\* execute() returns, in every execution, also when no further pod or
\* rule-object event arrives after the signal.
C21_ShutdownCompletes == (~running) ~> (pcMain = "exited")

\* a watch stream has failed with a transport error
StreamFailed ==
    \E i \in 1..Len(faults) :
        faults[i] \in {"k8s pod event watcher error", "k8s config_map event watcher error"}

\* C22: when a watch stream fails with a transport error its loop terminates
\* and does not resubscribe, and the whole process then comes to an end:
\* execute() returns, and the other loop does not go on taking events while
\* those of the failed stream go unhandled.
C22_StreamFailureEndsProcess ==
    /\ [][ /\ (podPc = "done" => podPc' = "done")
           /\ (cmPc = "done" => cmPc' = "done")
           /\ (StreamFailed => /\ Len(podStream') >= Len(podStream)
                               /\ Len(cmStream') >= Len(cmStream)) ]_vars
    /\ (StreamFailed ~> pcMain = "exited")

\* graph g holds the nodes of exactly the exporter pods that are Running
ReflectsNode(g) ==
    /\ \A p \in DOMAIN pods :
          (kind_of(PodTable[p]) = "custom" /\ ~endpoint_cfg_raises(PodTable[p]))
            => (HasTriad(g, PodTable[p].name) <=> pods[p] = "Running")
    /\ (DCGM_EXPORTER_SOURCE_NAME \in DOMAIN g.sources) <=> RunningOfKind("dcgm")

\* C23: a failure to persist the graph while an event is handled drops that
\* edit and the loop continues; once a subsequent event has been handled
\* successfully (and nothing is left to handle) the persisted graph reflects
\* the correct state again, the effect of the dropped edit included.
C23_DroppedEditRecovered ==
    [][ ( /\ faults = <<"save_yaml">>
          /\ faults' = faults
          /\ podPc = "loaded" /\ podPc' = "wait"
          /\ file' # file
          /\ podStream' = <<>> /\ cmStream' = <<>> /\ cmPc' = "wait" )
        => ReflectsNode(file') ]_vars

\* graph g holds the triad of every Running custom-metrics pod whose
\* metadata is well formed
SetsEveryOtherPod(g) ==
    \A p \in DOMAIN pods :
        ( /\ pods[p] = "Running"
          /\ kind_of(PodTable[p]) = "custom"
          /\ ~endpoint_cfg_raises(PodTable[p]) )
        => HasTriad(g, PodTable[p].name)

\* C24: a custom-metrics pod with malformed metadata (a non-numeric port
\* annotation) never aborts a reconciliation pass.  Bootstrap completes and
\* persists the nodes of every other pod, a rule-object refresh goes through
\* to its save and persists them too, and the offending pod has no nodes.
C24_MalformedPodNeverAborts ==
    [][ /\ (pcMain = "bootstrap" /\ pcMain' # "bootstrap")
            => (pcMain' = "watching" /\ SetsEveryOtherPod(file'))
        /\ (cmPc = "loaded" /\ cmPc' # "loaded" /\ faults' = faults)
            => cmPc' = "listed"
        /\ (cmPc = "listed" /\ cmPc' # "listed")
            => SetsEveryOtherPod(file') ]_vars

\* the construction of the reloader failed: no node identity, or the node's
\* labels could not be read
StartupFailed ==
    \E i \in 1..Len(faults) :
        faults[i] \in {"NODE_NAME not set", "Failed to fetch node labels"}

\* C25: no partial startup.  If NODE_NAME is missing or the node's labels
\* cannot be read, the process ends with an error before bootstrap: the
\* persisted graph is never written and neither watch loop is started.
C25_NoPartialStartup ==
    StartupFailed =>
        /\ pcMain = "failed"
        /\ file = NoGraph
        /\ podPc = "wait" /\ podEvent = NoEvent /\ podStream = <<>>
        /\ cmPc = "wait" /\ cmStream = <<>> /\ cache = <<>>

\* the node's labels could not be read and the process has ended
C25_Witness ==
    /\ faults = <<"Failed to fetch node labels">>
    /\ pcMain = "failed"
    /\ RunningPods # {}

\* ------------------------------------------------------------------------
\* Properties of the log collector (checked under CollectorSpec)
\* ------------------------------------------------------------------------

\* C26: in API mode every task received with an event_id is answered within
\* the same poll cycle.  A 'success' report carrying the log file is sent iff
\* the collection produced a log file within the timeout, otherwise a 'failed'
\* report with the error message; if the success upload fails, one 'failed'
\* status report is attempted and the upload is not retried in that cycle.
C26_TaskAnsweredInCycle ==
    LET reports == collector.reports
    IN  /\ Cardinality({i \in 1..Len(reports) : reports[i].status = "success"}) <= 1
        /\ (collector.pc = "sleep" /\ collector.task = <<>>) => reports = <<>>
        /\ (collector.pc = "sleep" /\ collector.task # <<>>) =>
              /\ reports # <<>>
              /\ (collector.outcome = "file")
                    <=> (reports[1].status = "success" /\ reports[1].log_file # <<>>)
              /\ collector.outcome # "file"
                    => /\ Len(reports) = 1
                       /\ reports[1].status = "failed"
                       /\ reports[1].log_file = <<>>
                       /\ reports[1].message # ""
              /\ (collector.outcome = "file" /\ reports[1].accepted) => Len(reports) = 1
              /\ (collector.outcome = "file" /\ ~reports[1].accepted)
                    => /\ Len(reports) = 2
                       /\ reports[2].status = "failed"
                       /\ reports[2].log_file = <<>>

\* a cycle in which the log file was collected and its upload failed
C26_Witness ==
    /\ collector.pc = "sleep"
    /\ collector.task = <<"evt-123">>
    /\ collector.outcome = "file"
    /\ Len(collector.reports) = 2
    /\ ~collector.reports[1].accepted

\* C27: collect_logs uses pod-based execution whenever a Running driver pod
\* is found (host-based execution is then never invoked), falls back to
\* host-based execution only when no driver pod is found and the host NVIDIA
\* tools are available, and returns None when neither is available.
C27_PodModePreferred ==
    collector.pc = "report" =>
        LET node == collector.node[1]
        IN  /\ node.driver_pod => collector.invoked = {"pod"}
            /\ (~node.driver_pod /\ node.host_tools) => collector.invoked = {"local"}
            /\ (~node.driver_pod /\ ~node.host_tools)
                  => (collector.invoked = {} /\ collector.outcome # "file")

\* the three presence tests of a kind agree
Together(a, b, c) == (a <=> b) /\ (b <=> c)

NodeTakes(g) ==
    IF NODE_METRICS_VECTOR_TRANSFORM_NAME \in DOMAIN g.transforms
    THEN Range(g.transforms[NODE_METRICS_VECTOR_TRANSFORM_NAME].inputs)
    ELSE {}

KindsWhole(g) ==
    /\ (DCGM_EXPORTER_SOURCE_NAME \in DOMAIN g.sources)
          <=> (DCGM_EXPORTER_SOURCE_NAME \in NodeTakes(g))
    /\ Together(AMD_EXPORTER_SOURCE_NAME \in DOMAIN g.sources,
                AMD_FILTER_TRANSFORM_NAME \in DOMAIN g.transforms,
                AMD_FILTER_TRANSFORM_NAME \in NodeTakes(g))
    /\ Together(KUBE_STATE_METRICS_SOURCE_NAME \in DOMAIN g.sources,
                KUBE_STATE_METRICS_TRANSFORM_NAME \in DOMAIN g.transforms,
                KUBE_STATE_METRICS_SINK_NAME \in DOMAIN g.sinks)
    /\ \A p \in DOMAIN pods :
          kind_of(PodTable[p]) = "custom" =>
              Together(SourceId(PodTable[p].name) \in DOMAIN g.sources,
                       TransformId(PodTable[p].name) \in DOMAIN g.transforms,
                       SinkId(PodTable[p].name) \in DOMAIN g.sinks)

\* C28: in every persisted graph each exporter kind is wholly present or
\* wholly absent: the dcgm source exists iff the node-level transform takes
\* it; the amd source, the amd filter and the filter's edge into the
\* node-level transform exist together or not at all; so do the
\* kube-state-metrics source, transform and sink, and the source, transform
\* and sink of each custom-metrics pod.
C28_KindsWhollyPresentOrAbsent == KindsWhole(file)

\* ------------------------------------------------------------------------
\* Classification of a pod that matches several predicates (PrioritySpec)
\* ------------------------------------------------------------------------

Priority == <<"custom", "dcgm", "ksm", "amd">>

\* the kinds whose predicate accepts the pod
Matches(pod) ==
    {k \in Range(Priority) :
        CASE k = "custom" -> is_custom_metrics_pod(pod)
          [] k = "dcgm" -> is_dcgm_exporter_pod(pod)
          [] k = "ksm" -> is_kube_state_metrics_pod(pod)
          [] k = "amd" -> is_exporter_pod(pod)}

Highest(pod) ==
    Priority[CHOOSE i \in 1..Len(Priority) :
                /\ Priority[i] \in Matches(pod)
                /\ \A j \in 1..(i - 1) : Priority[j] \notin Matches(pod)]

\* the graph holds what the set edit of the kind adds for the pod
KindPresent(g, kind, pod) ==
    IF kind = "custom" THEN HasTriad(g, pod.name)
    ELSE KindSource(kind) \in DOMAIN g.sources

\* some node of what the set edit of the kind adds for the pod is in the graph
KindTouched(g, kind, pod) ==
    IF kind = "custom"
    THEN \/ SourceId(pod.name) \in DOMAIN g.sources
         \/ TransformId(pod.name) \in DOMAIN g.transforms
         \/ SinkId(pod.name) \in DOMAIN g.sinks
    ELSE KindSource(kind) \in DOMAIN g.sources

\* C29: classification is first-match-wins in the order custom-metrics, dcgm,
\* kube-state-metrics, amd.  For a pod that satisfies more than one predicate
\* no persisted graph holds a node of a lower-priority kind it matches;
\* bootstrap with the pod Running and the handling of its Running event both
\* persist the edit of its highest-priority kind, and the handling of its
\* Terminating event removes that same kind.
C29_FirstMatchWins ==
    [][ \A p \in DOMAIN pods :
          LET pod == PodTable[p]
          IN  Cardinality(Matches(pod)) > 1 =>
                /\ \A k \in Matches(pod) \ {Highest(pod)} : ~KindTouched(file', k, pod)
                /\ (pcMain = "bootstrap" /\ pcMain' = "watching" /\ pods[p] = "Running")
                      => KindPresent(file', Highest(pod), pod)
                /\ (podPc = "loaded" /\ podPc' # "loaded" /\ podEvent.pod = p)
                      => (KindPresent(file', Highest(pod), pod)
                            <=> podEvent.phase = "Running") ]_vars

\* the pod matches several predicates, was Running at bootstrap, and the
\* handling of its Terminating event has removed its highest-priority kind
C29_Witness ==
    \E p \in DOMAIN pods :
        /\ Cardinality(Matches(PodTable[p])) > 1
        /\ pods[p] = "Terminating"
        /\ podEvents = 1
        /\ podStream = <<>>
        /\ podPc = "wait"
        /\ cmPc = "wait"
        /\ cmStream = <<>>
        /\ faults = <<>>
        /\ ~KindTouched(file, Highest(PodTable[p]), PodTable[p])

\* C30: handle_pod_event leaves the persisted graph as it was when the pod
\* is in neither the Running nor the Terminating phase (it does not even
\* load the graph), and when the pod matches no exporter kind.
C30_IgnoredPodEventKeepsGraph ==
    [][ /\ ( /\ podPc = "wait"
             /\ podStream # <<>>
             /\ podStream' = Tail(podStream)
             /\ Head(podStream).phase \notin {"Running", "Terminating"} )
          => (file' = file /\ podPc' # "loaded" /\ podCfg' = podCfg)
        /\ ( /\ podPc = "loaded"
             /\ podPc' # "loaded"
             /\ Matches(PodTable[podEvent.pod]) = {} )
          => file' = file ]_vars

\* the only pod on the node matches no kind, and two events about it have
\* been handled
C30_Witness ==
    /\ pods = [cm_w |-> "Absent", dcgm |-> "Absent", other |-> "Running"]
    /\ Matches(PodTable["other"]) = {}
    /\ podEvents = 2
    /\ podStream = <<>>
    /\ podPc = "wait"
    /\ faults = <<>>
    /\ file # NoGraph

\* ------------------------------------------------------------------------
\* Shutdown (FaultSpec)
\* ------------------------------------------------------------------------

\* C31: shutdown never interrupts an event in progress.  The clearing of the
\* running flag leaves both handlers where they are; a handler that is
\* executing with the flag cleared completes, its persist included, and its
\* loop is then stopped; a stopped loop takes no further event, so no loop
\* handles more than one event that starts after the flag was cleared.
C31_ShutdownAfterCurrentEvent ==
    [][ /\ (running /\ ~running')
          => UNCHANGED <<podPc, podEvent, podCfg, cmPc, cmObject, cmCfg, cmEps, file>>
        /\ (~running /\ podPc = "wait" /\ podPc' # "wait")
          => podPc' \in {"loaded", "done"}
        /\ (~running /\ podPc = "loaded" /\ podPc' # "loaded")
          => /\ podPc' = "done"
             /\ ( /\ faults' = faults
                  /\ Matches(PodTable[podEvent.pod]) # {}
                  /\ ~endpoint_cfg_raises(PodTable[podEvent.pod]) )
                => file' = save_yaml(with_node_metrics_source(
                                        pod_event_edit(podCfg, podEvent)))
        /\ (~running /\ cmPc = "wait" /\ cmPc' # "wait")
          => cmPc' \in {"loaded", "done"}
        /\ (~running /\ cmPc = "loaded" /\ cmPc' # "loaded")
          => cmPc' \in {"listed", "done"}
        /\ (~running /\ cmPc = "listed" /\ cmPc' # "listed")
          => (cmPc' = "done" /\ file' = save_yaml(refresh_edit(cmCfg, cmEps)))
        /\ (podPc = "done") => (podPc' = "done" /\ Len(podStream') >= Len(podStream))
        /\ (cmPc = "done") => (cmPc' = "done" /\ cache' = cache) ]_vars

\* the flag is cleared and both loops have stopped after an event, the pod
\* loop with an event still undelivered
C31_Witness ==
    /\ ~running
    /\ podPc = "done"
    /\ cmPc = "done"
    /\ podStream # <<>>
    /\ faults = <<>>

\* ------------------------------------------------------------------------
\* The baseline template under the exporter nodes (Spec)
\* ------------------------------------------------------------------------

\* every node of the baseline template is in g, as the node it is in the
\* template: same type, the template's edges still there
BaselineKept(g) ==
    /\ \A k \in DOMAIN BaseConfig.sources :
          k \in DOMAIN g.sources /\ g.sources[k] = BaseConfig.sources[k]
    /\ \A k \in DOMAIN BaseConfig.transforms :
          /\ k \in DOMAIN g.transforms
          /\ g.transforms[k].type = BaseConfig.transforms[k].type
          /\ Range(BaseConfig.transforms[k].inputs) \subseteq Range(g.transforms[k].inputs)
    /\ \A k \in DOMAIN BaseConfig.sinks :
          /\ k \in DOMAIN g.sinks
          /\ g.sinks[k].type = BaseConfig.sinks[k].type
          /\ g.sinks[k].inputs = BaseConfig.sinks[k].inputs

\* C32: every node of the baseline template (host_metrics,
\* enrich_node_metrics, cms_gateway_node_metrics) is present in every graph
\* persisted from bootstrap on; no set or remove edit deletes or replaces one.
C32_BaselineNeverDeleted ==
    pcMain # "bootstrap" => BaselineKept(file)

\* the custom-metrics pod 'dcgm-exporter', whose source id is that of the
\* dcgm kind, was added and its Terminating event has been handled
C32_Witness ==
    /\ "cm_dcgm" \in DOMAIN pods
    /\ pods["cm_dcgm"] = "Terminating"
    /\ pods["dcgm"] = "Running"
    /\ podEvents = 1
    /\ podStream = <<>>
    /\ podPc = "wait"
    /\ faults = <<>>
    /\ BaselineKept(file)

\* ------------------------------------------------------------------------
\* Pods without an assigned IP (UnreadySpec)
\* ------------------------------------------------------------------------

\* the endpoints of the scrape sources of g
ScrapeEndpoints(g) ==
    UNION {Range(g.sources[k].endpoints) :
             k \in {s \in DOMAIN g.sources : g.sources[s].type = "prometheus_scrape"}}

\* C33: no source node is created from a pod without an assigned IP.  A
\* Running pod event, or a pod of the bootstrap or refresh listing, whose IP
\* is empty is skipped: no persisted graph holds an endpoint with an empty
\* host.
C33_NoSourceWithoutIp ==
    \A e \in ScrapeEndpoints(file) : e.ip # ""

\* ------------------------------------------------------------------------
\* The clamping warning (PolicySpec)
\* ------------------------------------------------------------------------

\* C34: whenever the interval configured for a custom-metrics pod is below
\* the minimum threshold of 5, a warning naming the pod is logged by the
\* call that clamps it up to 5.
C34_ClampingIsLogged ==
    (call.op = "set_custom_metrics_scrape_config") =>
        \A i \in 1..Len(call.eps) :
            LET override == get_deployment_metrics_config(
                                call.eps[i].deployment_name).scrape_interval_secs
            IN  (override # <<>> /\ override[1] < 5)
                    => call.eps[i].pod_name \in call.warned

\* ------------------------------------------------------------------------
\* Statement order of the compiled expression (PolicySpec)
\* ------------------------------------------------------------------------

\* the routing and provenance labels, in the order they are emitted
FixedLabels ==
    <<"nodepool", "cluster_id", "vm_id", "vm_instance_type", "pod_id",
      "crusoe_resource", "metrics_source", "pod_ip", "pod_name">>

GuardStmts ==
    {"allowed_metrics", "abort_unless_allowed", "dropped_metrics", "abort_if_dropped"}

\* C35: the compiled expression of every policy has its statements in the
\* order abort guard (if any), one deletion per drop-label, the label
\* assignments in input order, the fixed routing/provenance labels; the
\* fixed labels are emitted for every policy, the empty one included, and
\* are always last.
C35_StatementOrder ==
    \A n \in CustomTransforms(graph) :
        LET lines == CompiledLines(graph, n)
            policy == PolicyOfLines(lines)
            g == IF policy.allowlist # <<>> \/ policy.droplist # <<>> THEN 2 ELSE 0
            d == Len(policy.dropLabels)
            a == Len(policy.addLabels)
        IN  /\ Len(lines) = g + d + a + Len(FixedLabels)
            /\ \A i \in 1..g : lines[i].stmt \in GuardStmts
            /\ \A i \in 1..d :
                  lines[g + i] = [stmt |-> "del", label |-> policy.dropLabels[i]]
            /\ \A i \in 1..a :
                  lines[g + d + i] = [stmt |-> "set", label |-> policy.addLabels[i][1],
                                      value |-> policy.addLabels[i][2]]
            /\ \A i \in 1..Len(FixedLabels) :
                  /\ lines[g + d + a + i].stmt \in {"tag", "set"}
                  /\ lines[g + d + a + i].label = FixedLabels[i]

\* a policy with a guard, two drop-labels and two assignments, one of which
\* sets a dropped label again, has been compiled, and so has the empty policy
\* of a pod without deployment
C35_Witness ==
    /\ call.op = "set_custom_metrics_scrape_config"
    /\ Len(call.eps) = 2
    /\ \E n \in CustomTransforms(graph) :
          LET policy == PolicyOfLines(CompiledLines(graph, n))
          IN  /\ policy.droplist # <<>>
              /\ policy.allowlist = <<>>
              /\ policy.dropLabels = <<"l2", "l1">>
              /\ Len(policy.addLabels) = 2
              /\ Len(CompiledLines(graph, n)) = 6 + Len(FixedLabels)
    /\ \E n \in CustomTransforms(graph) :
          /\ PolicyOfLines(CompiledLines(graph, n)) = EmptyPolicy
          /\ Len(CompiledLines(graph, n)) = Len(FixedLabels)

\* ------------------------------------------------------------------------
\* Events of other ConfigMaps (NamespaceSpec)
\* ------------------------------------------------------------------------

\* C36: a rebuild of the custom-metrics nodes is triggered only by events of
\* the rule object crusoe-custom-metrics-config: the ConfigMap loop writes
\* the persisted graph only while it handles an event of that object, and
\* events of any other object of the namespace leave the graph unwritten.
C36_OnlyRuleObjectRebuilds ==
    [][ (cmPc = "listed" /\ cmPc' # "listed")
            => cmObject = CUSTOM_METRICS_CONFIG_MAP_NAME ]_vars

\* ------------------------------------------------------------------------
\* The policy after a deletion of the rule object (Spec)
\* ------------------------------------------------------------------------

\* the policy of a deployment in the rule object as the reloader last saw it
LastKnownPolicy(deployment_name) ==
    IF cache # <<>> /\ deployment_name \in DOMAIN cache[1].rules
    THEN cache[1].rules[deployment_name]
    ELSE EmptyPolicy

\* C37: after a rule-object DELETED event the custom-metrics nodes keep
\* reflecting the last-known-good policy.  When the rule object is deleted
\* and its DELETED event has been handled, the handling of a Running event
\* of a custom-metrics pod compiles the pod's transform from the policy that
\* was in force before the deletion, not from the empty policy.
C37_LastKnownGoodPolicyKept ==
    [][ ( /\ ruleObject = Deleted
          /\ cmStream = <<>>
          /\ cmPc = "wait"
          /\ podPc = "loaded"
          /\ podPc' # "loaded"
          /\ faults' = faults
          /\ podEvent.phase = "Running"
          /\ is_custom_metrics_pod(PodTable[podEvent.pod])
          /\ reloader_cfg.custom_metrics_enabled )
        => LET ep == get_custom_metrics_endpoint_cfg(PodTable[podEvent.pod])
               tid == TransformId(ep.pod_name)
           IN  /\ tid \in DOMAIN file'.transforms
               /\ CompiledLines(file', tid) =
                     build_deployment_transform_source(
                         LastKnownPolicy(ep.deployment_name), ep) ]_vars

\* ------------------------------------------------------------------------
\* Pods without a policy (PolicySpec)
\* ------------------------------------------------------------------------

\* no policy can be found for the descriptor: it has no deployment name, the
\* rule object cannot be fetched, its key is missing or empty, or it has no
\* entry for the deployment
LacksPolicy(ep) ==
    \/ ep.deployment_name = <<>>
    \/ ~ruleObject.readable
    \/ DOMAIN ruleObject.rules = {}
    \/ ep.deployment_name \notin DOMAIN ruleObject.rules

\* the triad of the pod holds only the routing labels and the default interval
PlainTriad(g, ep) ==
    /\ HasTriad(g, ep.pod_name)
    /\ LET lines == CompiledLines(g, TransformId(ep.pod_name))
       IN  /\ Len(lines) = Len(FixedLabels)
           /\ \A i \in 1..Len(lines) : lines[i].label = FixedLabels[i]
           /\ PodNameOf(lines) = ep.pod_name
    /\ g.sources[SourceId(ep.pod_name)].scrape_interval_secs
          = CUSTOM_METRICS_DEFAULT_SCRAPE_INTERVAL

\* C38: policy lookup never fails a reconciliation for lack of policy.  For
\* a pod whose deployment name is empty, or whose policy cannot be found
\* because the rule object cannot be fetched, its key is missing or empty, or
\* it has no entry for the deployment, set_custom_metrics_scrape_config still
\* creates the triad, with only the routing labels and the default interval
\* (seen on each descriptor whose ids no later descriptor of the same call
\* writes again).
C38_LookupNeverFails ==
    (call.op = "set_custom_metrics_scrape_config") =>
        \A i \in 1..Len(call.eps) :
            ( /\ LacksPolicy(call.eps[i])
              /\ \A j \in (i + 1)..Len(call.eps) :
                    SourceId(call.eps[j].pod_name) # SourceId(call.eps[i].pod_name) )
            => PlainTriad(graph, call.eps[i])

\* the triad of pod svc-b-456 was created while the rule object holds a
\* policy for deployment w only, next to the triad of pod w.a-b, which has no
\* deployment name
C38_Witness ==
    /\ call.op = "set_custom_metrics_scrape_config"
    /\ ruleObject.readable
    /\ DOMAIN ruleObject.rules = {DEPLOYMENT_W}
    /\ ruleObject.rules[DEPLOYMENT_W].allowlist # <<>>
    /\ \E i, j \in 1..Len(call.eps) :
          /\ call.eps[i].pod_name = NAME_SVC_B_456
          /\ call.eps[j].pod_name = NAME_W_DOT_A_B
          /\ call.eps[j].deployment_name = <<>>
          /\ PlainTriad(graph, call.eps[i])
          /\ PlainTriad(graph, call.eps[j])

\* ------------------------------------------------------------------------
\* The type of a pod event (EventTypeSpec)
\* ------------------------------------------------------------------------

\* the edit for a pod and a phase, under an event of the given type
EditUnderType(cfg, pod, phase, type) ==
    pod_event_edit(cfg, [type |-> type, pod |-> pod, phase |-> phase])

\* C39: the edit of handle_pod_event is determined by the pod's phase and
\* classification and not by the type of the watch event.  The graph that
\* the handling of an event persists is the graph that an event of any
\* other type with the same pod would have persisted from the same loaded
\* graph; a DELETED event whose pod is Running applies set like an ADDED one.
C39_EventTypeIrrelevant ==
    [][ ( /\ podPc = "loaded"
          /\ podPc' # "loaded"
          /\ faults' = faults
          /\ Matches(PodTable[podEvent.pod]) # {}
          /\ ~endpoint_cfg_raises(PodTable[podEvent.pod]) )
        => \A type \in {"ADDED", "MODIFIED", "DELETED"} :
              file' = save_yaml(with_node_metrics_source(
                          EditUnderType(podCfg, podEvent.pod, podEvent.phase, type))) ]_vars

\* the handler has loaded the graph for a DELETED event whose pod, a
\* custom-metrics pod, still reports the phase Running
C39_Witness ==
    /\ podPc = "loaded"
    /\ podEvent.type = "DELETED"
    /\ podEvent.phase = "Running"
    /\ is_custom_metrics_pod(PodTable[podEvent.pod])
    /\ pods[podEvent.pod] = "Running"

\* C40: log collections never overlap: while the collection thread of a
\* poll cycle is running (the loop is waiting in join), no collection
\* thread of an earlier cycle is still running, so no two of them clean up
\* or write the output directory at the same time.
C40_CollectionsNeverOverlap ==
    collector.pc = "join" => collector.abandoned = 0

====
